---- MODULE Spec2Model ----
(***************************************************************************)
(* Scout / Sniper / Hive coordination subsystem of the Antigravity         *)
(* extension and its orchestrator server.                                  *)
(*                                                                         *)
(*   SpecHive, SpecMonitor - the orchestrator's client registry, message   *)
(*       dispatch and broadcasts; with its clock and heartbeat monitor     *)
(*       (src/extension/fingerprint_spoof.js, lines 764-1408)              *)
(*   SpecSniper - the booking executor of one client process               *)
(*       (src/extension/sniper.js) and the coordination-channel handlers   *)
(*       that drive it (fingerprint_spoof.js, lines 402-546)               *)
(*   SpecScout, SpecProbes - the slot poller of one client process         *)
(*       (src/extension/scout.js)                                          *)
(*   SpecSocket - the client's connection to the orchestrator              *)
(*       (fingerprint_spoof.js, lines 130-762)                             *)
(***************************************************************************)
EXTENDS Integers, Sequences, FiniteSets, TLC

\* ------------------------------------------------------------------------
\* Bounds of the model
\* ------------------------------------------------------------------------
MaxClients == 3
MaxTicks == 4
MaxTasks == 2
MaxPayload == 1
MaxCount == 1
MaxMonitorClients == 2
MaxInvocations == 2
MaxRetriesArg == 2
MaxSlots == 1
MaxNow == 1
TickMs == 30000
MaxScoutTasks == 2
MaxChecks == 2
MaxScoutTicks == 3
MaxSockets == 3
\* the checks counted while every answer of the endpoint is a 429
MaxRateChecks == 4
\* the ticks of the client's clock while one poll loop is followed through its
\* backoff
MaxLoopTicks == 5
\* the listed phrases one response body may hold
MaxPhrases == 2
\* the checks counted, and the ticks of the clock, while the error backoff is
\* followed to its cap
MaxBackoffChecks == 7
MaxBackoffTicks == 24
\* handleSlotsFound invocations that may overlap, and the slots of one find
MaxFinds == 2
MaxFindSlots == 2
\* PAGE_STATE messages received
MaxPageStates == 4
\* BOOKED results followed to the server
MaxBookings == 3

\* ------------------------------------------------------------------------
\* Program constants
\* ------------------------------------------------------------------------
\* CONFIG.heartbeat.interval / CONFIG.heartbeat.timeout (milliseconds)
HeartbeatInterval == 30000
HeartbeatTimeout == 60000
\* ws readyState OPEN, as tested by the broadcast utilities
WsOpen == 1

VARIABLES
    clients,    \* server: Map clientId -> ClientRecord
    conn,       \* server: each connection's socket, "fresh" before it is accepted
    hnow,       \* server: Date.now()
    tasks,      \* server: handlers suspended in `await notifyUser(...)`
    sent,       \* server: the frames written by the last handler, in order
    now,        \* client: Date.now() of the extension process
    sniperState,\* client: sniper.js sniperState
    inv,        \* client: the invocations of the sniper's entry points
    completeSeen, \* client: a BOOKING_COMPLETE frame has been handled
    scoutState, \* client: scout.js scoutState
    scoutTasks, \* client: the scout's asynchronous activations
    activeSession, \* client: scout.js activeSession
    lastCooldown, \* client: the deadline last assigned to scoutState.cooldownUntil
    scoutOut,   \* client: the runtime messages sent by the scout's last step
    socketState,\* client: the connector's socketState
    ws,         \* client: the WebSocket objects created so far
    autoConnect, \* client: the connect timer set on load is pending
    uplink,     \* client: the frames the connector's listener last wrote to its socket
    autoSniperAttempts, \* client: background.js autoSniperAttempts
    finds,      \* client: the invocations of handleSlotsFound
    pageStates, \* client: the invocations of background.js handlePageState
    bgActiveSession, \* client: background.js activeSession, as the PAGE_STATE it was built from
    bookings    \* client: the BOOKED results of executeSniper and the messages they caused

hiveVars == <<clients, conn, hnow, tasks, sent>>
sniperVars == <<sniperState, inv>>
scoutVars == <<scoutState, scoutTasks, activeSession, lastCooldown, scoutOut>>
socketVars == <<socketState, ws, autoConnect, uplink>>
autoVars == <<autoSniperAttempts, finds, pageStates, bgActiveSession, bookings>>
clientVars == <<now, completeSeen, sniperVars, scoutVars, socketVars, autoVars>>
vars == <<clients, conn, hnow, tasks, sent, now, sniperState, inv, completeSeen,
          scoutState, scoutTasks, activeSession, lastCooldown, scoutOut,
          socketState, ws, autoConnect, uplink, autoSniperAttempts, finds,
          pageStates, bgActiveSession, bookings>>

\* ========================================================================
\* ORCHESTRATOR (THE HIVE)
\* ========================================================================
ClientIds == 1..MaxClients

NoName == <<"none", 0>>
\* name: `Client-${clientId.slice(0, 8)}`
DefaultName(c) == <<"Client", c>>
\* SOCKET_CONFIG.clientName, sent by every extension in REGISTER
ExtensionName == <<"Antigravity-Extension", 0>>

Registry == DOMAIN clients

\* ws.readyState of a connection's socket: 1 while open, 2 once the peer is
\* closing it or the server terminated it, 3 after its close event.
ReadyState(c) ==
    CASE conn[c] = "open" -> WsOpen
      [] conn[c] \in {"closing", "terminated"} -> 2
      [] OTHER -> 3

Frame(to, type, source, data, count) ==
    [to |-> to, type |-> type, source |-> source, data |-> data, count |-> count]

\* The elements of a finite set of integers in increasing order: Map.forEach
\* visits the client ids in insertion order, and ids are accepted in order.
RECURSIVE SetToSeq(_)
SetToSeq(S) ==
    IF S = {} THEN <<>>
    ELSE LET m == CHOOSE x \in S : \A y \in S : x <= y
         IN <<m>> \o SetToSeq(S \ {m})

FramesTo(recipients, type, source, data, count) ==
    LET order == SetToSeq(recipients)
    IN [i \in 1..Len(order) |-> Frame(order[i], type, source, data, count)]

\* broadcastToAll(message): every registry client whose socket is open
BroadcastToAllRecipients(reg) ==
    {c \in DOMAIN reg : ReadyState(c) = WsOpen}

\* broadcastToOthers without the `id !== excludeId` test
BroadcastToOthersNoExclude(reg, excludeId) ==
    {c \in DOMAIN reg : ReadyState(c) = WsOpen}

\* broadcastToOthers(excludeId, message)
BroadcastToOthersRecipients(reg, excludeId) ==
    {c \in DOMAIN reg : c # excludeId /\ ReadyState(c) = WsOpen}

Remove(reg, S) == [c \in (DOMAIN reg) \ S |-> reg[c]]

NewClient(c) ==
    [name |-> DefaultName(c), lastHeartbeat |-> hnow, status |-> "idle",
     stats |-> [checks |-> 0, slotsFound |-> 0, bookings |-> 0]]

\* ------------------------------------------------------------------------
\* Inbound payloads (client -> server)
\* ------------------------------------------------------------------------
Undefined == "undefined"
\* HEARTBEAT{status}: sendHeartbeat reports hunting or idle; the field may be absent
HeartbeatStatuses == {Undefined, "idle", "hunting"}
\* STATUS_UPDATE{status}: handleStartScout, handleStopScout, handleRotateProxy
StatusUpdates == {Undefined, "idle", "hunting", "proxy_rotated"}
\* HEARTBEAT{stats}: absent, or a record of some of the stats fields
NoStats == [absent |-> TRUE]
HeartbeatStats == {NoStats, [checks |-> 1], [checks |-> 1, slotsFound |-> 0, bookings |-> 0]}
\* REGISTER{name}: absent, or SOCKET_CONFIG.clientName
RegisterNames == {NoName, ExtensionName}
\* SLOT_FOUND{slots} and BOOKING_SUCCESS{slotData}: 0 when the field is absent
DataValues == 0..MaxPayload
\* types that handleClientMessage only logs
LoggedTypes == {"BOOKING_FAILED", "ERROR", "LOG", "UNKNOWN"}

\* HEARTBEAT{stats} that may also carry another counter alone
PartialStats == HeartbeatStats \cup {[slotsFound |-> 1]}

\* the record replaced by the payload's, absent counters falling back to 0
ReplaceStats(old, new) ==
    [f \in DOMAIN old |-> IF f \in DOMAIN new THEN new[f] ELSE 0]

\* { ...client.stats, ...payload.stats }
MergeStats(old, new) ==
    [f \in DOMAIN old |-> IF f \in DOMAIN new THEN new[f] ELSE old[f]]

\* payload?.x || fallback
OrElse(v, fallback) == IF v = Undefined THEN fallback ELSE v

HiveInit ==
    /\ clients = <<>>
    /\ conn = [c \in ClientIds |-> "fresh"]
    /\ hnow = 0
    /\ tasks = <<>>
    /\ sent = <<>>

\* wss.on('connection'): ids are issued in order, one per accepted socket
Connection(c) ==
    /\ conn[c] = "fresh"
    /\ \A d \in ClientIds : d < c => conn[d] # "fresh"
    /\ conn' = [conn EXCEPT ![c] = "open"]
    /\ clients' = [d \in Registry \cup {c} |-> IF d = c THEN NewClient(c) ELSE clients[d]]
    /\ sent' = <<Frame(c, "WELCOME", NoName, 0, 0)>>
               \o FramesTo({d \in Registry \cup {c} : d = c \/ ReadyState(d) = WsOpen},
                           "CLIENT_COUNT", NoName, 0, Cardinality(Registry \cup {c}))
    /\ UNCHANGED <<hnow, tasks>>
    /\ UNCHANGED clientVars

\* handleClientMessage, case 'HEARTBEAT'
Heartbeat(c, status, stats) ==
    /\ conn[c] = "open"
    /\ IF c \in Registry
       THEN /\ clients' = [clients EXCEPT
                   ![c].lastHeartbeat = hnow,
                   ![c].status = OrElse(status, "active"),
                   ![c].stats = IF stats = NoStats THEN @ ELSE MergeStats(@, stats)]
            /\ sent' = <<Frame(c, "HEARTBEAT_ACK", NoName, 0, 0)>>
       ELSE /\ sent' = <<>>
            /\ UNCHANGED clients
    /\ UNCHANGED <<conn, hnow, tasks>>
    /\ UNCHANGED clientVars

\* handleClientMessage, case 'REGISTER'
Register(c, name) ==
    /\ conn[c] = "open"
    /\ IF c \in Registry
       THEN clients' = [clients EXCEPT ![c].name = IF name = NoName THEN @ ELSE name]
       ELSE UNCHANGED clients
    /\ sent' = <<>>
    /\ UNCHANGED <<conn, hnow, tasks>>
    /\ UNCHANGED clientVars

\* handleClientMessage, case 'STATUS_UPDATE'
StatusUpdate(c, status) ==
    /\ conn[c] = "open"
    /\ IF c \in Registry
       THEN clients' = [clients EXCEPT ![c].status = OrElse(status, @)]
       ELSE UNCHANGED clients
    /\ sent' = <<>>
    /\ UNCHANGED <<conn, hnow, tasks>>
    /\ UNCHANGED clientVars

\* handleClientMessage, cases 'BOOKING_FAILED', 'ERROR', 'LOG' and default
LoggedOnly(c, type) ==
    /\ conn[c] = "open"
    /\ type \in LoggedTypes
    /\ sent' = <<>>
    /\ UNCHANGED <<clients, conn, hnow, tasks>>
    /\ UNCHANGED clientVars

\* handleClientMessage, case 'SLOT_FOUND': handleSlotFound up to `await notifyUser`
SlotFound(c, slots) ==
    /\ conn[c] = "open"
    /\ Len(tasks) < MaxTasks
    /\ IF c \in Registry
       THEN /\ clients[c].stats.slotsFound < MaxCount
            /\ clients' = [clients EXCEPT ![c].stats.slotsFound = @ + 1]
            /\ tasks' = Append(tasks, [kind |-> "SLOT_FOUND", from |-> c,
                                       clientName |-> clients[c].name, data |-> slots])
       ELSE UNCHANGED <<clients, tasks>>
    /\ sent' = <<>>
    /\ UNCHANGED <<conn, hnow>>
    /\ UNCHANGED clientVars

\* handleClientMessage, case 'BOOKING_SUCCESS': handleBookingSuccess up to the await
BookingSuccess(c, slotData) ==
    /\ conn[c] = "open"
    /\ Len(tasks) < MaxTasks
    /\ IF c \in Registry
       THEN /\ clients[c].stats.bookings < MaxCount
            /\ clients' = [clients EXCEPT ![c].stats.bookings = @ + 1]
            /\ tasks' = Append(tasks, [kind |-> "BOOKING_SUCCESS", from |-> c,
                                       clientName |-> clients[c].name, data |-> slotData])
       ELSE UNCHANGED <<clients, tasks>>
    /\ sent' = <<>>
    /\ UNCHANGED <<conn, hnow>>
    /\ UNCHANGED clientVars

RemoveAt(q, i) == [j \in 1..(Len(q) - 1) |-> IF j < i THEN q[j] ELSE q[j + 1]]

\* handleSlotFound after `await notifyUser`: broadcastToOthers(clientId, SNIPER_TRIGGER)
SlotFoundBroadcast(t) ==
    FramesTo(BroadcastToOthersRecipients(clients, t.from), "SNIPER_TRIGGER",
             t.clientName, t.data, 0)

\* handleBookingSuccess broadcasting with broadcastToOthers instead of broadcastToAll
BookingSuccessToOthers(t) ==
    FramesTo(BroadcastToOthersRecipients(clients, t.from), "BOOKING_COMPLETE",
             t.clientName, t.data, 0)

\* handleBookingSuccess after `await notifyUser`: broadcastToAll(BOOKING_COMPLETE)
BookingSuccessBroadcast(t) ==
    FramesTo(BroadcastToAllRecipients(clients), "BOOKING_COMPLETE",
             t.clientName, t.data, 0)

\* notifyUser resolves and the suspended handler runs to its end
NotifyDone(i) ==
    /\ i \in 1..Len(tasks)
    /\ sent' = IF tasks[i].kind = "SLOT_FOUND"
               THEN SlotFoundBroadcast(tasks[i])
               ELSE BookingSuccessBroadcast(tasks[i])
    /\ tasks' = RemoveAt(tasks, i)
    /\ UNCHANGED <<clients, conn, hnow>>
    /\ UNCHANGED clientVars

\* the peer closes or dies: the socket leaves OPEN before its close event is emitted
PeerClose(c) ==
    /\ conn[c] = "open"
    /\ conn' = [conn EXCEPT ![c] = "closing"]
    /\ sent' = <<>>
    /\ UNCHANGED <<clients, hnow, tasks>>
    /\ UNCHANGED clientVars

\* ws.on('close'): emitted once for a socket the peer closed or the server terminated
CloseEvent(c) ==
    /\ conn[c] \in {"closing", "terminated"}
    /\ conn' = [conn EXCEPT ![c] = "closed"]
    /\ clients' = Remove(clients, {c})
    /\ sent' = FramesTo({d \in DOMAIN clients' : conn'[d] = "open"}, "CLIENT_COUNT",
                        NoName, 0, Cardinality(DOMAIN clients'))
    /\ UNCHANGED <<hnow, tasks>>
    /\ UNCHANGED clientVars

\* ws.on('error'): the socket is torn down after the event, its close event follows
ErrorEvent(c) ==
    /\ conn[c] = "open"
    /\ conn' = [conn EXCEPT ![c] = "closing"]
    /\ clients' = Remove(clients, {c})
    /\ sent' = <<>>
    /\ UNCHANGED <<hnow, tasks>>
    /\ UNCHANGED clientVars

\* timeSinceHeartbeat > CONFIG.heartbeat.timeout
Stale(reg, c) == hnow - reg[c].lastHeartbeat > HeartbeatTimeout

\* the monitor terminating stale sockets without `clients.delete(id)`
SweepKeepsRecords(reg) == reg

\* heartbeat monitor: the registry after `clients.delete(id)` of every stale client
HeartbeatSweepRegistry(reg) == Remove(reg, {c \in DOMAIN reg : Stale(reg, c)})

\* heartbeat monitor (setInterval): client.ws.terminate() and clients.delete(id)
HeartbeatSweep ==
    /\ clients' = HeartbeatSweepRegistry(clients)
    /\ conn' = [c \in ClientIds |->
                  IF c \in Registry /\ Stale(clients, c) /\ conn[c] \in {"open", "closing"}
                  THEN "terminated" ELSE conn[c]]
    /\ sent' = <<>>
    /\ UNCHANGED <<hnow, tasks>>
    /\ UNCHANGED clientVars

\* the server clock advances by one monitor period
HiveTick ==
    /\ hnow < MaxTicks * HeartbeatInterval
    /\ hnow' = hnow + HeartbeatInterval
    /\ sent' = <<>>
    /\ UNCHANGED <<clients, conn, tasks>>
    /\ UNCHANGED clientVars

\* ========================================================================
\* BOOKING EXECUTOR (THE SNIPER)
\* ========================================================================
Invocations == 1..MaxInvocations
\* a slot descriptor; 0 stands for one whose slotId is undefined
Slots == 0..MaxSlots
NoSlot == 0

\* SNIPER_CONFIG.status
Booked == "BOOKED"
Failed == "FAILED"
Pending == "PENDING"
Redirect == "REDIRECT"
TokenError == "TOKEN_ERROR"

Result(status, reason) == [status |-> status, reason |-> reason]
NoResult == Result("NONE", "")

\* The phrases analyzeBookingResponse looks for
SuccessPhrases == {"Payment", "Confirmation", "successfully", "booked", "appointment has been"}
FailurePhrases == {"not available", "already booked", "error", "failed"}

\* text.includes(phrase), for a body given by the listed phrases written in it:
\* a body with "already booked" in it also includes "booked"
Includes(body, phrase) ==
    \/ phrase \in body
    \/ phrase = "booked" /\ "already booked" \in body

\* the body of a response whose text() rejects
Unreadable == {"<unreadable>"}

\* A response: status, the Location header ("" when absent) and the body
Response(status, location, body) ==
    [status |-> status, location |-> location, body |-> body]

\* analyzeBookingResponse(response, portal)
AnalyzeBookingResponse(r) ==
    IF r.status = 302 \/ r.status = 301
    THEN IF r.location \in {"Payment", "Confirm", "Success"}
         THEN Result(Booked, r.location)
         ELSE Result(Redirect, r.location)
    ELSE IF r.status = 200
    THEN IF r.body = Unreadable
         THEN Result(Pending, "Could not parse response")
         ELSE IF \E ph \in SuccessPhrases : Includes(r.body, ph)
         THEN Result(Booked, "")
         ELSE IF \E ph \in FailurePhrases : Includes(r.body, ph)
         THEN Result(Failed, "Slot no longer available")
         ELSE Result(Pending, "Response unclear, check manually")
    ELSE IF r.status = 429
    THEN Result(Failed, "Rate limited (429)")
    ELSE IF r.status = 403 \/ r.status = 401
    THEN Result(Failed, "Authentication failed")
    ELSE Result(Failed, "HTTP error")

\* What the booking endpoint may answer; status 0 stands for fetch rejecting
BookingResponses ==
    {Response(302, "Payment", {}), Response(302, "", {}),
     Response(200, "", {"successfully"}), Response(200, "", {"not available"}),
     Response(200, "", {}), Response(200, "", Unreadable),
     Response(429, "", {}), Response(401, "", {}),
     Response(403, "", {}), Response(500, "", {}), Response(0, "", {})}

\* The responses the classification is examined on: a 301 or 302 with each kind
\* of Location header, and a 200 whose body holds up to MaxPhrases of the phrases
Locations == {"", "Payment", "Confirm", "Success", "Login"}
Bodies ==
    {b \in SUBSET (SuccessPhrases \cup FailurePhrases) : Cardinality(b) <= MaxPhrases}
        \cup {Unreadable}
ClassifiedResponses ==
    {Response(s, l, {}) : s \in {301, 302}, l \in Locations}
        \cup {Response(200, "", b) : b \in Bodies}

\* The four token sources in the order extractVerificationToken tries them:
\* session header, session DOM snapshot, live page, storage; 0 is null and
\* source i, when present, yields token i
TokenSources == [1..4 -> BOOLEAN]

\* a lookup that prefers the later sources
ExtractStoredTokenFirst(src) ==
    IF \E i \in 1..4 : src[i]
    THEN CHOOSE i \in 1..4 : src[i] /\ \A j \in (i + 1)..4 : ~src[j]
    ELSE 0

\* extractVerificationToken(activeSession): the first non-null source
ExtractVerificationToken(src) ==
    IF \E i \in 1..4 : src[i]
    THEN CHOOSE i \in 1..4 : src[i] /\ \A j \in 1..(i - 1) : ~src[j]
    ELSE 0

NewInvocation ==
    [pc |-> "new", kind |-> "none", slots |-> <<>>, arg |-> NoSlot,
     retries |-> 0, given |-> 0, calls |-> 0, result |-> NoResult,
     afterComplete |-> FALSE]

SniperInit ==
    /\ now = 0
    /\ sniperState = [lastShot |-> -1, totalShots |-> 0, successfulShots |-> 0,
                      failedShots |-> 0, isExecuting |-> FALSE]
    /\ inv = [p \in Invocations |-> NewInvocation]
    /\ completeSeen = FALSE

\* executeSniperWithRetry without the `retries > 0` test
ShouldRetryAlways(result, retries) == result.status = Failed

\* executeSniperWithRetry: `result.status === FAILED && retries > 0`
ShouldRetry(result, retries) == result.status = Failed /\ retries > 0

\* The caller of executeSniper resumes with `result`: executeSniperWithRetry either
\* starts its retry delay or returns; handleSniperTrigger reports and returns.
Resume(rec, result) ==
    [rec EXCEPT
        !.result = result,
        !.pc = IF rec.kind = "retry" /\ ShouldRetry(result, rec.retries)
               THEN "retryDelay" ELSE "returned"]

\* executeSniper while another shot is executing
SniperRejected == Result(Pending, "Already executing")

\* executeSniper with the isExecuting test removed
GuardNever(st) == FALSE

\* executeSniper: `if (sniperState.isExecuting)`
GuardBlocks(st) == st.isExecuting

\* executeSniper(slotData, activeSession) up to its first await, called by
\* invocation p whose frame is rec
EnterExecuteSniper(p, rec) ==
    IF GuardBlocks(sniperState)
    THEN /\ inv' = [inv EXCEPT ![p] = Resume(rec, SniperRejected)]
         /\ UNCHANGED sniperState
    ELSE /\ sniperState' = [sniperState EXCEPT !.isExecuting = TRUE,
                                               !.lastShot = now,
                                               !.totalShots = @ + 1]
         /\ inv' = [inv EXCEPT ![p] = [rec EXCEPT !.pc = "token",
                                                  !.afterComplete = completeSeen]]

\* executeSniper returning without its `finally` block
LeaveHoldingGuard(p, result) ==
    /\ sniperState' = [sniperState EXCEPT
            !.successfulShots = IF result.status = Booked THEN @ + 1 ELSE @,
            !.failedShots = IF result.status = Booked THEN @ ELSE @ + 1]
    /\ inv' = [inv EXCEPT ![p] = Resume(inv[p], result)]

\* executeSniper leaves through `finally` with `result`; counted as a success
\* exactly when it is BOOKED
LeaveExecuteSniper(p, result) ==
    /\ sniperState' = [sniperState EXCEPT
            !.isExecuting = FALSE,
            !.successfulShots = IF result.status = Booked THEN @ + 1 ELSE @,
            !.failedShots = IF result.status = Booked THEN @ ELSE @ + 1]
    /\ inv' = [inv EXCEPT ![p] = Resume(inv[p], result)]

\* invocations are taken in order
NextNew(p) == inv[p].pc = "new" /\ \A q \in Invocations : q < p => inv[q].pc # "new"

\* EXECUTE_SNIPER message, or the auto-sniper: executeSniperWithRetry(slot, session, retries)
ExecuteSniperWithRetry(p, slot, retries) ==
    /\ NextNew(p)
    /\ EnterExecuteSniper(p, [NewInvocation EXCEPT !.kind = "retry", !.slots = <<slot>>,
                                !.arg = slot, !.retries = retries, !.given = retries,
                                !.calls = 1])
    /\ UNCHANGED <<now, completeSeen>>
    /\ UNCHANGED <<hiveVars, scoutVars, socketVars, autoVars>>

\* executeSniperWithRetry after its retry delay: the recursive call with retries - 1
RetryDelayElapsed(p) ==
    /\ inv[p].pc = "retryDelay"
    /\ EnterExecuteSniper(p, [inv[p] EXCEPT !.retries = @ - 1, !.calls = @ + 1,
                                            !.arg = inv[p].slots[1]])
    /\ UNCHANGED <<now, completeSeen>>
    /\ UNCHANGED <<hiveVars, scoutVars, socketVars, autoVars>>

\* handleSniperTrigger(payload) up to `await` of GET_SESSION
HandleSniperTrigger(p, slots) ==
    /\ NextNew(p)
    /\ inv' = [inv EXCEPT ![p] = [NewInvocation EXCEPT !.kind = "trigger",
                                     !.slots = slots, !.pc = "session"]]
    /\ UNCHANGED <<now, sniperState, completeSeen>>
    /\ UNCHANGED <<hiveVars, scoutVars, socketVars, autoVars>>

\* handleSniperTrigger once the session arrived: executeSniper(payload.slots[0], session)
SniperTriggerSession(p) ==
    /\ inv[p].pc = "session"
    /\ IF Len(inv[p].slots) > 0
       THEN EnterExecuteSniper(p, [inv[p] EXCEPT !.arg = inv[p].slots[1], !.calls = 1])
       ELSE /\ inv' = [inv EXCEPT ![p].pc = "returned"]
            /\ UNCHANGED sniperState
    /\ UNCHANGED <<now, completeSeen>>
    /\ UNCHANGED <<hiveVars, scoutVars, socketVars, autoVars>>

\* executeSniper, step 1: the token is resolved; none means TOKEN_ERROR
TokenResolved(p, src) ==
    /\ inv[p].pc = "token"
    /\ IF ExtractVerificationToken(src) = 0
       THEN LeaveExecuteSniper(p, Result(TokenError, "Missing RequestVerificationToken"))
       ELSE /\ inv' = [inv EXCEPT ![p].pc = "config"]
            /\ UNCHANGED sniperState
    /\ UNCHANGED <<now, completeSeen>>
    /\ UNCHANGED <<hiveVars, scoutVars, socketVars, autoVars>>

\* executeSniper, steps 2-5: the configuration is loaded, the payload built and
\* the POST issued; buildBookingPayload throws on a slot without slotId
BookingRequestIssued(p) ==
    /\ inv[p].pc = "config"
    /\ IF inv[p].arg = NoSlot
       THEN LeaveExecuteSniper(p, Result(Failed, "TypeError"))
       ELSE /\ inv' = [inv EXCEPT ![p].pc = "fetch"]
            /\ UNCHANGED sniperState
    /\ UNCHANGED <<now, completeSeen>>
    /\ UNCHANGED <<hiveVars, scoutVars, socketVars, autoVars>>

\* executeSniper, step 6: the response (or the rejection of fetch) arrives
BookingResponse(p, r) ==
    /\ inv[p].pc = "fetch"
    /\ LeaveExecuteSniper(p, IF r.status = 0 THEN Result(Failed, "Failed to fetch")
                             ELSE AnalyzeBookingResponse(r))
    /\ UNCHANGED <<now, completeSeen>>
    /\ UNCHANGED <<hiveVars, scoutVars, socketVars, autoVars>>

\* ========================================================================
\* SLOT POLLER (THE SCOUT)
\* ========================================================================
\* SCOUT_CONFIG.rateLimit
MinInterval == 10000
MaxJitter == 5000
CooldownDuration == 60000
ScoutMaxRetries == 3
BackoffMultiplier == 2
\* the cap on the error backoff, `Math.min(backoffTime, 300000)`
MaxBackoff == 300000
\* scoutState.cooldownUntil when it is null
NoCooldown == 0

ScoutTasks == 1..MaxScoutTasks

\* SCOUT_CONFIG.status, as far as a probe returns it
Found == "FOUND"
Empty == "EMPTY"
Cooldown == "COOLDOWN"
Error == "ERROR"

\* getRandomDelay(): minInterval + floor(random * maxJitter), at its two extremes
Delays == {MinInterval, MinInterval + MaxJitter - 1}

Min(a, b) == IF a < b THEN a ELSE b

RECURSIVE Pow(_, _)
Pow(b, e) == IF e <= 0 THEN 1 ELSE b * Pow(b, e - 1)

\* the backoff without its five-minute cap
BackoffTimeUncapped(errors) ==
    CooldownDuration * Pow(BackoffMultiplier, errors - ScoutMaxRetries)

\* checkSlotsSilent, catch block: the backoff after `errors` consecutive errors
BackoffTime(errors) ==
    Min(CooldownDuration * Pow(BackoffMultiplier, errors - ScoutMaxRetries), MaxBackoff)

\* a deadline that lies before the clock: not what the 429 branches assign
StandardCooldownBackdated(t) == CooldownDuration - t

\* Date.now() + SCOUT_CONFIG.rateLimit.cooldownDuration, the deadline the 429
\* branches assign
StandardCooldown(t) == t + CooldownDuration

\* `scoutState.cooldownUntil && Date.now() < scoutState.cooldownUntil`
InCooldown(st, t) == st.cooldownUntil # NoCooldown /\ t < st.cooldownUntil

\* An asynchronous activation of the scout: startScout ("start", which becomes
\* "loop" once it calls pollLoop), pollLoop ("loop") or a CHECK_SLOTS_ONCE
\* probe ("once"); wake is the time its pending sleep ends, and session tells
\* whether the request in flight was built from the session its own GET_SESSION
\* returned ("fetched") or from the one left in activeSession ("stored")
NoTask == [kind |-> "none", pc |-> "idle", wake |-> 0, result |-> "NONE",
           session |-> "none"]

\* activation t is the first one that is not running
Free(t) ==
    /\ scoutTasks[t].pc \in {"idle", "done"}
    /\ \A u \in ScoutTasks : u < t => scoutTasks[u].pc \notin {"idle", "done"}

\* an activation that has begun and not yet returned
Running(t) == scoutTasks[t].pc \notin {"idle", "done"}

ScoutInit ==
    /\ scoutState = [isPolling |-> FALSE, isPaused |-> FALSE,
                     cooldownUntil |-> NoCooldown, consecutiveErrors |-> 0,
                     totalChecks |-> 0, slotsFound |-> 0]
    /\ scoutTasks = [t \in ScoutTasks |-> NoTask]
    /\ activeSession = "null"
    /\ lastCooldown = NoCooldown
    /\ scoutOut = <<>>

\* stopScout() that leaves the flags alone
StopScoutNoop(st) == st

\* stopScout(): the flags it clears
StopScoutState(st) == [st EXCEPT !.isPolling = FALSE, !.isPaused = FALSE]

\* a result that reports the flags instead of the counters
StopScoutResultFlags(st) ==
    [status |-> "STOPPED", isPolling |-> st.isPolling, isPaused |-> st.isPaused]

\* stopScout(): the object it returns, read from the state it leaves
StopScoutResult(st) ==
    [status |-> "STOPPED", totalChecks |-> StopScoutState(st).totalChecks,
     slotsFound |-> StopScoutState(st).slotsFound]

\* a loop head that sleeps again whatever the flags say
LoopHeadUnchecked(task, st, delay) ==
    [st |-> st,
     task |-> [NoTask EXCEPT !.kind = "loop", !.pc = "jitter", !.wake = now + delay]]

\* the head of pollLoop's while: another round, sleeping `delay`, or the end
LoopHead(task, st, delay) ==
    [st |-> st,
     task |-> IF st.isPolling /\ ~st.isPaused
              THEN [NoTask EXCEPT !.kind = "loop", !.pc = "jitter", !.wake = now + delay]
              ELSE [NoTask EXCEPT !.kind = "loop", !.pc = "done"]]

\* a caller that goes round its loop again whatever the result
ReturnedKeepsPolling(task, result, st, delay) ==
    IF task.kind = "once"
    THEN [st |-> st,
          task |-> [NoTask EXCEPT !.kind = task.kind, !.pc = "done", !.result = result]]
    ELSE LoopHead(task, st, delay)

\* checkSlotsSilent returned `result` to its caller, which goes on from there
Returned(task, result, st, delay) ==
    LET done == [NoTask EXCEPT !.kind = task.kind, !.pc = "done", !.result = result]
    IN  IF task.kind = "once"
        THEN [st |-> st, task |-> done]
        ELSE IF result = Found
        THEN [st |-> [st EXCEPT !.isPolling = FALSE], task |-> done]
        ELSE LoopHead(task, st, delay)

\* checkSlotsSilent(dataParam) up to `await fetchActiveSession()`
Entered(task, st, delay) ==
    IF InCooldown(st, now)
    THEN Returned(task, Cooldown, st, delay)
    ELSE [st |-> st, task |-> [NoTask EXCEPT !.kind = task.kind, !.pc = "session"]]

\* the deadline last assigned to cooldownUntil, once the state has become st
Assigned(st) ==
    IF st.cooldownUntil # NoCooldown THEN st.cooldownUntil ELSE lastCooldown

\* the runtime messages sent while an activation moves from `task` to `next`:
\* the found branch of checkSlotsSilent sends SLOTS_FOUND before it returns
\* FOUND, and pollLoop then broadcasts SCOUT_RESULT
Emitted(task, next) ==
    IF task.pc = "fetch" /\ next.result = Found
    THEN IF task.kind = "loop" THEN <<"SLOTS_FOUND", "SCOUT_RESULT">>
         ELSE <<"SLOTS_FOUND">>
    ELSE <<>>

\* the scout's state and activation t move on to r
ScoutStep(t, r) ==
    /\ scoutState' = r.st
    /\ scoutTasks' = [scoutTasks EXCEPT ![t] = r.task]
    /\ lastCooldown' = Assigned(r.st)
    /\ scoutOut' = Emitted(scoutTasks[t], r.task)

\* startScout(dataParam) up to the first await of its initial check
StartScout(t, d) ==
    /\ Free(t)
    /\ LET stopped == IF scoutState.isPolling THEN StopScoutState(scoutState)
                      ELSE scoutState
           st == [stopped EXCEPT !.isPolling = TRUE, !.isPaused = FALSE,
                                 !.consecutiveErrors = 0, !.cooldownUntil = NoCooldown]
       IN  ScoutStep(t, Entered([NoTask EXCEPT !.kind = "start"], st, d))
    /\ UNCHANGED <<now, completeSeen, activeSession>>
    /\ UNCHANGED <<hiveVars, sniperVars, socketVars, autoVars>>

\* START_SCOUT sent once the initial check of every earlier startScout has
\* returned
Restart(t, d) ==
    /\ \A u \in ScoutTasks : Running(u) => scoutTasks[u].kind # "start"
    /\ StartScout(t, d)

\* STOP_SCOUT: stopScout()
StopScout ==
    /\ scoutState' = StopScoutState(scoutState)
    /\ scoutOut' = <<>>
    /\ UNCHANGED <<now, completeSeen, scoutTasks, activeSession, lastCooldown>>
    /\ UNCHANGED <<hiveVars, sniperVars, socketVars, autoVars>>

\* START_SCOUT sent while the scout is idle: not polling, nothing running
FirstStart(t, d) ==
    /\ ~scoutState.isPolling
    /\ \A u \in ScoutTasks : ~Running(u)
    /\ StartScout(t, d)

\* PAUSE_SCOUT: pauseScout()
PauseScout ==
    /\ scoutState' = [scoutState EXCEPT !.isPaused = TRUE]
    /\ scoutOut' = <<>>
    /\ UNCHANGED <<now, completeSeen, scoutTasks, activeSession, lastCooldown>>
    /\ UNCHANGED <<hiveVars, sniperVars, socketVars, autoVars>>

\* RESUME_SCOUT: resumeScout(), which does nothing unless polling and paused
ResumeScout(t, d) ==
    /\ scoutState.isPolling /\ scoutState.isPaused
    /\ Free(t)
    /\ ScoutStep(t, LoopHead(NoTask, [scoutState EXCEPT !.isPaused = FALSE], d))
    /\ UNCHANGED <<now, completeSeen, activeSession>>
    /\ UNCHANGED <<hiveVars, sniperVars, socketVars, autoVars>>

\* CHECK_SLOTS_ONCE: checkSlotsSilent(dataParam, date)
CheckOnce(t, d) ==
    /\ Free(t)
    /\ ScoutStep(t, Entered([NoTask EXCEPT !.kind = "once"], scoutState, d))
    /\ UNCHANGED <<now, completeSeen, activeSession>>
    /\ UNCHANGED <<hiveVars, sniperVars, socketVars, autoVars>>

\* GET_SESSION is answered with an authenticated session ("auth"), another one
\* ("unauth") or not at all ("fail"); the probe then returns 'Not authenticated'
\* or counts the check and issues its request
SessionArrivedWithin(limit, t, answer, d) ==
    /\ scoutTasks[t].pc = "session"
    /\ scoutState.totalChecks < limit
    /\ activeSession' = IF answer = "fail" THEN activeSession ELSE answer
    /\ IF activeSession' # "auth"
       THEN ScoutStep(t, Returned(scoutTasks[t], Error, scoutState, d))
       ELSE ScoutStep(t, [st |-> [scoutState EXCEPT !.totalChecks = @ + 1],
                          task |-> [scoutTasks[t] EXCEPT
                                       !.pc = "fetch",
                                       !.session = IF answer = "fail" THEN "stored"
                                                   ELSE "fetched"]])
    /\ UNCHANGED <<now, completeSeen>>
    /\ UNCHANGED <<hiveVars, sniperVars, socketVars, autoVars>>

\* the same, with at most MaxChecks checks counted
SessionArrived(t, answer, d) == SessionArrivedWithin(MaxChecks, t, answer, d)

\* the slots endpoint answers: 429, an error (status not ok, network failure or
\* unparsable body), a list of slots or an empty list
FetchAnswered(t, answer, d) ==
    /\ scoutTasks[t].pc = "fetch"
    /\ LET errors == scoutState.consecutiveErrors + 1
           reset == [scoutState EXCEPT !.consecutiveErrors = 0]
       IN  CASE answer = "429" ->
                  ScoutStep(t, [st |-> [scoutState EXCEPT !.consecutiveErrors = errors],
                                task |-> [scoutTasks[t] EXCEPT !.pc = "rotate",
                                                               !.session = "none"]])
             [] answer = "error" ->
                  ScoutStep(t, Returned(scoutTasks[t], Error,
                      [scoutState EXCEPT
                          !.consecutiveErrors = errors,
                          !.cooldownUntil = IF errors >= ScoutMaxRetries
                                            THEN now + BackoffTime(errors) ELSE @],
                      d))
             [] answer = "slots" ->
                  ScoutStep(t, Returned(scoutTasks[t], Found,
                                        [reset EXCEPT !.slotsFound = @ + 1], d))
             [] answer = "empty" ->
                  ScoutStep(t, Returned(scoutTasks[t], Empty, reset, d))
    /\ UNCHANGED <<now, completeSeen, activeSession>>
    /\ UNCHANGED <<hiveVars, sniperVars, socketVars, autoVars>>

\* HANDLE_RATE_LIMIT is answered: action RESUME clears the cooldown, anything
\* else starts the standard one
RotationAnswered(t, resume, d) ==
    /\ scoutTasks[t].pc = "rotate"
    /\ ScoutStep(t, Returned(scoutTasks[t], Cooldown,
            IF resume
            THEN [scoutState EXCEPT !.cooldownUntil = NoCooldown,
                                    !.consecutiveErrors = 0]
            ELSE [scoutState EXCEPT !.cooldownUntil = StandardCooldown(now)],
            d))
    /\ UNCHANGED <<now, completeSeen, activeSession>>
    /\ UNCHANGED <<hiveVars, sniperVars, socketVars, autoVars>>

\* a loop that ends when it wakes into a cooldown
JitterElapsedEndsInCooldown(t, d) ==
    /\ scoutTasks[t].pc = "jitter"
    /\ now >= scoutTasks[t].wake
    /\ IF ~scoutState.isPolling \/ InCooldown(scoutState, now)
       THEN ScoutStep(t, [st |-> scoutState,
                          task |-> [scoutTasks[t] EXCEPT !.pc = "done"]])
       ELSE ScoutStep(t, Entered(scoutTasks[t], scoutState, d))
    /\ UNCHANGED <<now, completeSeen, activeSession>>
    /\ UNCHANGED <<hiveVars, sniperVars, socketVars, autoVars>>

\* pollLoop after `await sleep(delay)`: it ends if polling stopped, sleeps out a
\* cooldown, or performs the check
JitterElapsed(t, d) ==
    /\ scoutTasks[t].pc = "jitter"
    /\ now >= scoutTasks[t].wake
    /\ IF ~scoutState.isPolling
       THEN ScoutStep(t, [st |-> scoutState,
                          task |-> [scoutTasks[t] EXCEPT !.pc = "done"]])
       ELSE IF InCooldown(scoutState, now)
       THEN ScoutStep(t, [st |-> scoutState,
                          task |-> [scoutTasks[t] EXCEPT !.pc = "cooldownSleep",
                                                         !.wake = scoutState.cooldownUntil]])
       ELSE ScoutStep(t, Entered(scoutTasks[t], scoutState, d))
    /\ UNCHANGED <<now, completeSeen, activeSession>>
    /\ UNCHANGED <<hiveVars, sniperVars, socketVars, autoVars>>

\* pollLoop after `await sleep(cooldownRemaining)`: it clears the cooldown and
\* continues
CooldownElapsed(t, d) ==
    /\ scoutTasks[t].pc = "cooldownSleep"
    /\ now >= scoutTasks[t].wake
    /\ ScoutStep(t, LoopHead(scoutTasks[t],
                             [scoutState EXCEPT !.cooldownUntil = NoCooldown], d))
    /\ UNCHANGED <<now, completeSeen, activeSession>>
    /\ UNCHANGED <<hiveVars, sniperVars, socketVars, autoVars>>

\* CHECK_DATES answered 429: checkAvailableDates starts the standard cooldown
CheckDatesRateLimited ==
    /\ scoutState' = [scoutState EXCEPT !.cooldownUntil = StandardCooldown(now)]
    /\ lastCooldown' = Assigned(scoutState')
    /\ scoutOut' = <<>>
    /\ UNCHANGED <<now, completeSeen, scoutTasks, activeSession>>
    /\ UNCHANGED <<hiveVars, sniperVars, socketVars, autoVars>>

\* ========================================================================
\* AUTO-SNIPER (background.js)
\* ========================================================================
\* AUTO_SNIPER_CONFIG
AutoSniperEnabled == TRUE
PreferredSlotIndex == 0
RetryOnFail == TRUE
MaxAutoAttempts == 3

Finds == 1..MaxFinds

\* A slot as the endpoint lists it: its `slotId` and its `SlotId` field, 0 when
\* the field is absent. The slots carry no `time`, so selectBestSlot's sort
\* keeps their order.
FoundSlot(slotId, altId) == [slotId |-> slotId, SlotId |-> altId]
FoundSlots == {FoundSlot(1, 0), FoundSlot(2, 0), FoundSlot(0, 3), FoundSlot(0, 0)}

RECURSIVE SeqsUpTo(_, _)
SeqsUpTo(S, n) ==
    IF n = 0 THEN {<<>>}
    ELSE LET shorter == SeqsUpTo(S, n - 1)
         IN  shorter \cup {Append(q, x) : q \in shorter, x \in S}

SlotLists == SeqsUpTo(FoundSlots, MaxFindSlots)

\* what executeSniperWithRetry may return to handleSlotsFound
SniperStatuses == {Booked, Failed, Pending, Redirect, TokenError}

\* selectBestSlot(slots) for a non-empty list: the slot at the preferred index
SelectBestSlot(slots) == slots[Min(PreferredSlotIndex, Len(slots) - 1) + 1]

\* the slotId of the normalised slot: slot.slotId || slot.SlotId || ...
NormalisedId(slot) == IF slot.slotId # 0 THEN slot.slotId ELSE slot.SlotId

\* slots.filter(s => s.slotId !== selectedSlot.slotId)
RemainingSlots(slots, selected) ==
    SelectSeq(slots, LAMBDA s : s.slotId # NormalisedId(selected))

NoFind == [pc |-> "idle", slots |-> <<>>, selected |-> FoundSlot(0, 0), calls |-> 0]

\* PAGE_STATE messages, numbered in the order they are received; session 0 is
\* the empty session the module starts with
PageStates == 1..MaxPageStates
NoSession == 0

\* BOOKED results of executeSniper. For each: who called executeSniper
\* ("trigger": handleSniperTrigger, "auto": handleSlotsFound, "manual": the
\* EXECUTE_SNIPER handler), the runtime messages SNIPER_RESULT and
\* BOOKING_SUCCESS still to be delivered, and the BOOKING_SUCCESS frames written
\* to the socket so far
Bookings == 1..MaxBookings
NoBooking == [origin |-> "none", results |-> 0, successes |-> 0, frames |-> 0]

AutoInit ==
    /\ autoSniperAttempts = 0
    /\ finds = [h \in Finds |-> NoFind]
    /\ pageStates = [m \in PageStates |-> "new"]
    /\ bgActiveSession = NoSession
    /\ bookings = [b \in Bookings |-> NoBooking]

\* handleSlotsFound({slots}) up to its await of executeSniperWithRetry, or to
\* its return, for the invocation whose frame is rec
EnterHandleSlotsFound(h, rec, slots) ==
    IF slots = <<>> \/ ~AutoSniperEnabled
    THEN /\ finds' = [finds EXCEPT ![h] = [rec EXCEPT !.pc = "done"]]
         /\ UNCHANGED autoSniperAttempts
    ELSE IF autoSniperAttempts >= MaxAutoAttempts
    THEN /\ autoSniperAttempts' = 0
         /\ finds' = [finds EXCEPT ![h] = [rec EXCEPT !.pc = "done"]]
    ELSE /\ autoSniperAttempts' = autoSniperAttempts + 1
         /\ finds' = [finds EXCEPT ![h] = [rec EXCEPT !.pc = "shot",
                                                      !.slots = slots,
                                                      !.selected = SelectBestSlot(slots),
                                                      !.calls = @ + 1]]

\* SLOTS_FOUND or SCOUT_RESULT reaches the background listener:
\* handleSlotsFound(payload); invocations are taken in order
HandleSlotsFound(h, slots) ==
    /\ finds[h].pc = "idle"
    /\ \A g \in Finds : g < h => finds[g].pc # "idle"
    /\ EnterHandleSlotsFound(h, NoFind, slots)
    /\ UNCHANGED <<pageStates, bgActiveSession, bookings>>
    /\ UNCHANGED <<hiveVars, now, completeSeen, sniperVars, scoutVars, socketVars>>

\* executeSniperWithRetry returns `status` to handleSlotsFound, which resets the
\* counter on BOOKED, calls itself with the remaining slots on FAILED, and
\* returns otherwise
AutoSniperResult(h, status) ==
    /\ finds[h].pc = "shot"
    /\ LET remaining == RemainingSlots(finds[h].slots, finds[h].selected)
       IN  IF status = Booked
           THEN /\ autoSniperAttempts' = 0
                /\ finds' = [finds EXCEPT ![h].pc = "done"]
           ELSE IF status = Failed /\ RetryOnFail /\ remaining # <<>>
           THEN EnterHandleSlotsFound(h, finds[h], remaining)
           ELSE /\ finds' = [finds EXCEPT ![h].pc = "done"]
                /\ UNCHANGED autoSniperAttempts
    /\ UNCHANGED <<pageStates, bgActiveSession, bookings>>
    /\ UNCHANGED <<hiveVars, now, completeSeen, sniperVars, scoutVars, socketVars>>

\* PAGE_STATE message m is received: handlePageState(payload, sender) up to
\* `await getCookiesForDomain(domain)` when the sender is a tab with a url, and
\* up to `await chrome.storage.local.set(...)`, past the assignment of
\* activeSession, otherwise
HandlePageState(m, tab) ==
    /\ pageStates[m] = "new"
    /\ \A k \in PageStates : k < m => pageStates[k] # "new"
    /\ IF tab
       THEN /\ pageStates' = [pageStates EXCEPT ![m] = "cookies"]
            /\ UNCHANGED bgActiveSession
       ELSE /\ pageStates' = [pageStates EXCEPT ![m] = "persist"]
            /\ bgActiveSession' = m
    /\ UNCHANGED <<autoSniperAttempts, finds, bookings>>
    /\ UNCHANGED <<hiveVars, now, completeSeen, sniperVars, scoutVars, socketVars>>

\* chrome.cookies.getAll settles for message m: handlePageState assigns
\* activeSession and awaits chrome.storage.local.set
CookiesCaptured(m) ==
    /\ pageStates[m] = "cookies"
    /\ pageStates' = [pageStates EXCEPT ![m] = "persist"]
    /\ bgActiveSession' = m
    /\ UNCHANGED <<autoSniperAttempts, finds, bookings>>
    /\ UNCHANGED <<hiveVars, now, completeSeen, sniperVars, scoutVars, socketVars>>

\* chrome.storage.local.set settles for message m: handlePageState sends
\* SESSION_UPDATED and returns
SessionPersisted(m) ==
    /\ pageStates[m] = "persist"
    /\ pageStates' = [pageStates EXCEPT ![m] = "done"]
    /\ UNCHANGED <<autoSniperAttempts, finds, bgActiveSession, bookings>>
    /\ UNCHANGED <<hiveVars, now, completeSeen, sniperVars, scoutVars, socketVars>>

\* the session store; GET_SESSION answers with bgActiveSession and changes nothing
PageNext ==
    \/ \E m \in PageStates, tab \in BOOLEAN : HandlePageState(m, tab)
    \/ \E m \in PageStates : CookiesCaptured(m)
    \/ \E m \in PageStates : SessionPersisted(m)

\* ========================================================================
\* COORDINATION CLIENT (THE HIVE CONNECTOR)
\* ========================================================================
\* SOCKET_CONFIG.reconnect
ReconnectEnabled == TRUE
ReconnectMaxAttempts == 0
\* socketState.socket when it is null
NoSocket == 0

\* the WebSocket objects the client may create, in the order it creates them
Sockets == 1..MaxSockets

SocketInit ==
    /\ socketState = [socket |-> NoSocket, connected |-> FALSE, reconnecting |-> FALSE,
                      reconnectAttempts |-> 0, heartbeatTimer |-> FALSE,
                      reconnectTimer |-> FALSE]
    /\ ws = [s \in Sockets |-> "none"]
    /\ autoConnect = TRUE
    /\ uplink = <<>>

Created == {s \in Sockets : ws[s] # "none"}

\* connectToServer: `socketState.connected || socketState.reconnecting`
ConnectBlocked(st) == st.connected \/ st.reconnecting

\* connectToServer() called in state st: it returns false, or creates the next
\* WebSocket and keeps it in socketState.socket
ConnectToServer(st) ==
    IF ConnectBlocked(st)
    THEN /\ socketState' = st
         /\ UNCHANGED ws
    ELSE /\ Created # Sockets
         /\ LET s == CHOOSE s \in Sockets : s \notin Created /\ \A r \in Created : r < s
            IN  /\ socketState' = [st EXCEPT !.socket = s]
                /\ ws' = [ws EXCEPT ![s] = "connecting"]

\* scheduleReconnect()
ScheduleReconnect(st) ==
    IF st.reconnectTimer
    THEN st
    ELSE IF ReconnectMaxAttempts > 0 /\ st.reconnectAttempts >= ReconnectMaxAttempts
    THEN st
    ELSE [st EXCEPT !.reconnecting = TRUE, !.reconnectAttempts = @ + 1,
                    !.reconnectTimer = TRUE]

\* handleDisconnection()
HandleDisconnection(st) ==
    LET down == [st EXCEPT !.connected = FALSE, !.socket = NoSocket,
                           !.heartbeatTimer = FALSE]
    IN  IF ReconnectEnabled THEN ScheduleReconnect(down) ELSE down

\* the timer set on load fires: connectToServer()
AutoConnect ==
    /\ autoConnect
    /\ autoConnect' = FALSE
    /\ ConnectToServer(socketState)
    /\ UNCHANGED <<hiveVars, now, completeSeen, sniperVars, scoutVars, uplink, autoVars>>

\* CONNECT_TO_SERVER: connectToServer()
ConnectMessage ==
    /\ ConnectToServer(socketState)
    /\ UNCHANGED autoConnect
    /\ UNCHANGED <<hiveVars, now, completeSeen, sniperVars, scoutVars, uplink, autoVars>>

\* DISCONNECT_FROM_SERVER or SERVER_SHUTDOWN: disconnectFromServer()
DisconnectFromServer ==
    /\ socketState' = [socketState EXCEPT !.heartbeatTimer = FALSE,
                                          !.reconnectTimer = FALSE,
                                          !.reconnecting = FALSE,
                                          !.socket = NoSocket,
                                          !.connected = FALSE]
    /\ ws' = IF socketState.socket # NoSocket
                  /\ ws[socketState.socket] \in {"connecting", "open"}
             THEN [ws EXCEPT ![socketState.socket] = "closing"]
             ELSE ws
    /\ UNCHANGED autoConnect
    /\ UNCHANGED <<hiveVars, now, completeSeen, sniperVars, scoutVars, uplink, autoVars>>

\* the reconnect timer fires: it clears itself and calls connectToServer()
ReconnectTimerFires ==
    /\ socketState.reconnectTimer
    /\ ConnectToServer([socketState EXCEPT !.reconnectTimer = FALSE])
    /\ UNCHANGED autoConnect
    /\ UNCHANGED <<hiveVars, now, completeSeen, sniperVars, scoutVars, uplink, autoVars>>

\* socket s opens: its onopen handler
SocketOpen(s) ==
    /\ ws[s] = "connecting"
    /\ ws' = [ws EXCEPT ![s] = "open"]
    /\ socketState' = [socketState EXCEPT !.connected = TRUE, !.reconnecting = FALSE,
                                          !.reconnectAttempts = 0,
                                          !.heartbeatTimer = TRUE]
    /\ UNCHANGED autoConnect
    /\ UNCHANGED <<hiveVars, now, completeSeen, sniperVars, scoutVars, uplink, autoVars>>

\* socket s closes (refused, dropped, or closed from either side): its onclose
\* handler calls handleDisconnection()
SocketClose(s) ==
    /\ ws[s] \in {"connecting", "open", "closing"}
    /\ ws' = [ws EXCEPT ![s] = "closed"]
    /\ socketState' = HandleDisconnection(socketState)
    /\ UNCHANGED autoConnect
    /\ UNCHANGED <<hiveVars, now, completeSeen, sniperVars, scoutVars, uplink, autoVars>>

\* the `status` field of the payload the scout sends with a runtime message:
\* SLOTS_FOUND carries {slots, dataParam, timestamp}, SCOUT_RESULT the result
PayloadStatus(type) == IF type = "SCOUT_RESULT" THEN Found ELSE Undefined

\* sendToServer(message): the frame is written when the socket is OPEN
SendToServer(st, type) ==
    IF st.socket # NoSocket /\ ws[st.socket] = "open" THEN <<type>> ELSE <<>>


\* the connector's listener, cases SLOTS_FOUND and SCOUT_RESULT: reportSlotFound
\* when the payload's status is FOUND and the connector is connected
ReportSlotFound(st, type) ==
    IF PayloadStatus(type) = Found /\ st.connected
    THEN SendToServer(st, "SLOT_FOUND")
    ELSE <<>>

RECURSIVE Forwarded(_, _)
Forwarded(st, msgs) ==
    IF msgs = <<>> THEN <<>>
    ELSE ReportSlotFound(st, Head(msgs)) \o Forwarded(st, Tail(msgs))

\* the runtime messages of the scout's last step reach the connector's listener
SocketOnMessage ==
    /\ scoutOut # <<>>
    /\ uplink' = Forwarded(socketState, scoutOut)
    /\ scoutOut' = <<>>
    /\ UNCHANGED <<socketState, ws, autoConnect>>
    /\ UNCHANGED <<scoutState, scoutTasks, activeSession, lastCooldown>>
    /\ UNCHANGED <<hiveVars, now, completeSeen, sniperVars, autoVars>>

\* the listener's test for SLOTS_FOUND and SCOUT_RESULT,
\* `payload?.status === 'FOUND' || payload?.slots`: SLOTS_FOUND carries the
\* slots, the SCOUT_RESULT of a find its status FOUND and the same slots
StartsAutoSniper(type) ==
    \/ PayloadStatus(type) = Found
    \/ type \in {"SLOTS_FOUND", "SCOUT_RESULT"}

\* the slot lists a detection carries
DetectedSlotLists == {<<FoundSlot(1, 0)>>, <<FoundSlot(1, 0), FoundSlot(2, 0)>>}

\* the next runtime message of the scout's last step reaches the background
\* listener, cases SLOTS_FOUND and SCOUT_RESULT: handleSlotsFound(payload) when
\* the test passes
BackgroundOnMessage(h, slots) ==
    /\ scoutOut # <<>>
    /\ finds[h].pc = "idle"
    /\ \A g \in Finds : g < h => finds[g].pc # "idle"
    /\ IF StartsAutoSniper(Head(scoutOut))
       THEN EnterHandleSlotsFound(h, NoFind, slots)
       ELSE UNCHANGED <<autoSniperAttempts, finds>>
    /\ scoutOut' = Tail(scoutOut)
    /\ UNCHANGED <<scoutState, scoutTasks, activeSession, lastCooldown>>
    /\ UNCHANGED <<pageStates, bgActiveSession, bookings>>
    /\ UNCHANGED <<hiveVars, now, completeSeen, sniperVars, socketVars>>

\* listener case 'BOOKING_SUCCESS': reportBookingSuccess(payload) when connected
ReportBookingSuccess(st) ==
    IF st.connected THEN SendToServer(st, "BOOKING_SUCCESS") ELSE <<>>

\* executeSniper returns BOOKED to `origin`: its BOOKED branch has sent
\* SNIPER_RESULT (broadcastSniperResult); handleSniperTrigger then writes
\* BOOKING_SUCCESS to the socket itself, handleSlotsFound calls
\* notifyBookingSuccess, which sends the runtime message BOOKING_SUCCESS
ShotBooked(b, origin) ==
    /\ bookings[b].origin = "none"
    /\ \A a \in Bookings : a < b => bookings[a].origin # "none"
    /\ uplink' = IF origin = "trigger" THEN SendToServer(socketState, "BOOKING_SUCCESS")
                 ELSE <<>>
    /\ bookings' = [bookings EXCEPT ![b] =
            [origin |-> origin, results |-> 1,
             successes |-> IF origin = "auto" THEN 1 ELSE 0,
             frames |-> Len(uplink')]]
    /\ UNCHANGED <<socketState, ws, autoConnect>>
    /\ UNCHANGED <<autoSniperAttempts, finds, pageStates, bgActiveSession>>
    /\ UNCHANGED <<hiveVars, now, completeSeen, sniperVars, scoutVars>>

\* SNIPER_RESULT reaches the background listener: handleSniperResult(payload)
\* with status BOOKED calls notifyBookingSuccess
HandleSniperResult(b) ==
    /\ bookings[b].results > 0
    /\ bookings' = [bookings EXCEPT ![b].results = @ - 1, ![b].successes = @ + 1]
    /\ UNCHANGED <<autoSniperAttempts, finds, pageStates, bgActiveSession>>
    /\ UNCHANGED <<hiveVars, now, completeSeen, sniperVars, scoutVars, socketVars>>

\* the runtime message BOOKING_SUCCESS reaches the connector's listener
SocketOnBookingSuccess(b) ==
    /\ bookings[b].successes > 0
    /\ uplink' = ReportBookingSuccess(socketState)
    /\ bookings' = [bookings EXCEPT ![b].successes = @ - 1,
                                    ![b].frames = @ + Len(uplink')]
    /\ UNCHANGED <<socketState, ws, autoConnect>>
    /\ UNCHANGED <<autoSniperAttempts, finds, pageStates, bgActiveSession>>
    /\ UNCHANGED <<hiveVars, now, completeSeen, sniperVars, scoutVars>>

\* a BOOKED result while the connector is connected and its socket open
ConnectedShot(b, origin) ==
    /\ socketState.connected
    /\ socketState.socket # NoSocket /\ ws[socketState.socket] = "open"
    /\ ShotBooked(b, origin)

\* BOOKING_COMPLETE arrives: handleBookingComplete(payload) stops the scout if
\* it is polling
HandleBookingComplete ==
    /\ completeSeen' = TRUE
    /\ scoutState' = IF scoutState.isPolling THEN StopScoutState(scoutState)
                     ELSE scoutState
    /\ scoutOut' = <<>>
    /\ UNCHANGED <<now, scoutTasks, activeSession, lastCooldown>>
    /\ UNCHANGED <<hiveVars, sniperVars, socketVars, autoVars>>

\* the extension's clock advances, up to `limit` ticks
ClientTick(limit) ==
    /\ now < limit * TickMs
    /\ now' = now + TickMs
    /\ UNCHANGED <<completeSeen, sniperVars, scoutVars, socketVars, autoVars>>
    /\ UNCHANGED hiveVars

SniperNext ==
    \/ \E p \in Invocations, sl \in Slots, n \in 0..MaxRetriesArg :
            ExecuteSniperWithRetry(p, sl, n)
    \/ \E p \in Invocations : RetryDelayElapsed(p)
    \/ \E p \in Invocations, sl \in {<<>>} \cup {<<x>> : x \in Slots} :
            HandleSniperTrigger(p, sl)
    \/ \E p \in Invocations : SniperTriggerSession(p)
    \/ \E p \in Invocations, src \in TokenSources : TokenResolved(p, src)
    \/ \E p \in Invocations : BookingRequestIssued(p)
    \/ \E p \in Invocations, r \in BookingResponses : BookingResponse(p, r)
    \/ HandleBookingComplete
    \/ ClientTick(MaxNow)

\* one shot after another, each answered by a 301, 302 or 200
BackoffNext ==
    \/ \E t \in ScoutTasks, d \in Delays : CheckOnce(t, d)
    \/ \E t \in ScoutTasks, d \in Delays :
            SessionArrivedWithin(MaxBackoffChecks, t, "auth", d)
    \/ \E t \in ScoutTasks, a \in {"error", "slots", "empty"}, d \in Delays :
            FetchAnswered(t, a, d)
    \/ ClientTick(MaxBackoffTicks)

\* one scout, started while idle, then paused and resumed
PauseNext ==
    \/ \E t \in ScoutTasks, d \in Delays : FirstStart(t, d)
    \/ PauseScout
    \/ \E t \in ScoutTasks, d \in Delays : ResumeScout(t, d)
    \/ \E t \in ScoutTasks, a \in {"auth", "unauth", "fail"}, d \in Delays :
            SessionArrived(t, a, d)
    \/ \E t \in ScoutTasks, a \in {"429", "error", "slots", "empty"}, d \in Delays :
            FetchAnswered(t, a, d)
    \/ \E t \in ScoutTasks, r \in BOOLEAN, d \in Delays : RotationAnswered(t, r, d)
    \/ \E t \in ScoutTasks, d \in Delays : JitterElapsed(t, d)
    \/ \E t \in ScoutTasks, d \in Delays : CooldownElapsed(t, d)
    \/ ClientTick(MaxScoutTicks)

\* bookings reported over a connection that stays up
ReportNext ==
    \/ AutoConnect
    \/ \E s \in Sockets : SocketOpen(s)
    \/ \E b \in Bookings, o \in {"trigger", "auto", "manual"} : ConnectedShot(b, o)
    \/ \E b \in Bookings : HandleSniperResult(b)
    \/ \E b \in Bookings : SocketOnBookingSuccess(b)

\* the scout's detections reach the background listener
DetectNext ==
    \/ \E t \in ScoutTasks, d \in Delays : StartScout(t, d)
    \/ \E t \in ScoutTasks, d \in Delays : CheckOnce(t, d)
    \/ \E t \in ScoutTasks, a \in {"auth", "unauth", "fail"}, d \in Delays :
            SessionArrived(t, a, d)
    \/ \E t \in ScoutTasks, a \in {"429", "error", "slots", "empty"}, d \in Delays :
            FetchAnswered(t, a, d)
    \/ \E t \in ScoutTasks, r \in BOOLEAN, d \in Delays : RotationAnswered(t, r, d)
    \/ \E t \in ScoutTasks, d \in Delays : JitterElapsed(t, d)
    \/ \E t \in ScoutTasks, d \in Delays : CooldownElapsed(t, d)
    \/ ClientTick(MaxScoutTicks)
    \/ \E h \in Finds, slots \in DetectedSlotLists : BackgroundOnMessage(h, slots)
    \/ \E h \in Finds, status \in SniperStatuses : AutoSniperResult(h, status)

AutoNext ==
    \/ \E h \in Finds, slots \in SlotLists : HandleSlotsFound(h, slots)
    \/ \E h \in Finds, status \in SniperStatuses : AutoSniperResult(h, status)

AnalyzeNext ==
    \/ \E p \in Invocations, sl \in Slots \ {NoSlot} : ExecuteSniperWithRetry(p, sl, 0)
    \/ \E p \in Invocations, src \in TokenSources : TokenResolved(p, src)
    \/ \E p \in Invocations : BookingRequestIssued(p)
    \/ \E p \in Invocations, r \in ClassifiedResponses : BookingResponse(p, r)
    \/ ClientTick(MaxNow)

ScoutNext ==
    \/ \E t \in ScoutTasks, d \in Delays : StartScout(t, d)
    \/ StopScout
    \/ PauseScout
    \/ \E t \in ScoutTasks, d \in Delays : ResumeScout(t, d)
    \/ \E t \in ScoutTasks, d \in Delays : CheckOnce(t, d)
    \/ \E t \in ScoutTasks, a \in {"auth", "unauth", "fail"}, d \in Delays :
            SessionArrived(t, a, d)
    \/ \E t \in ScoutTasks, a \in {"429", "error", "slots", "empty"}, d \in Delays :
            FetchAnswered(t, a, d)
    \/ \E t \in ScoutTasks, r \in BOOLEAN, d \in Delays : RotationAnswered(t, r, d)
    \/ \E t \in ScoutTasks, d \in Delays : JitterElapsed(t, d)
    \/ \E t \in ScoutTasks, d \in Delays : CooldownElapsed(t, d)
    \/ CheckDatesRateLimited
    \/ HandleBookingComplete
    \/ ClientTick(MaxScoutTicks)

\* The probes alone: the poll loop started by startScout next to manual
\* CHECK_SLOTS_ONCE probes
ProbesNext ==
    \/ \E t \in ScoutTasks, d \in Delays : StartScout(t, d)
    \/ \E t \in ScoutTasks, d \in Delays : CheckOnce(t, d)
    \/ \E t \in ScoutTasks, a \in {"auth", "unauth", "fail"}, d \in Delays :
            SessionArrived(t, a, d)
    \/ \E t \in ScoutTasks, a \in {"429", "error", "slots", "empty"}, d \in Delays :
            FetchAnswered(t, a, d)
    \/ \E t \in ScoutTasks, r \in BOOLEAN, d \in Delays : RotationAnswered(t, r, d)
    \/ \E t \in ScoutTasks, d \in Delays : JitterElapsed(t, d)
    \/ \E t \in ScoutTasks, d \in Delays : CooldownElapsed(t, d)
    \/ ClientTick(MaxScoutTicks)

\* Nothing but rate-limited answers: every request of a probe, and every
\* CHECK_DATES request, is answered 429
RateLimitNext ==
    \/ \E t \in ScoutTasks, d \in Delays : StartScout(t, d)
    \/ \E t \in ScoutTasks, d \in Delays : CheckOnce(t, d)
    \/ \E t \in ScoutTasks, a \in {"auth", "unauth", "fail"}, d \in Delays :
            SessionArrivedWithin(MaxRateChecks, t, a, d)
    \/ \E t \in ScoutTasks, d \in Delays : FetchAnswered(t, "429", d)
    \/ \E t \in ScoutTasks, r \in BOOLEAN, d \in Delays : RotationAnswered(t, r, d)
    \/ \E t \in ScoutTasks, d \in Delays : JitterElapsed(t, d)
    \/ \E t \in ScoutTasks, d \in Delays : CooldownElapsed(t, d)
    \/ CheckDatesRateLimited
    \/ ClientTick(MaxScoutTicks)

\* startScout and its poll loop alone, restarted between initial checks
RestartNext ==
    \/ \E t \in ScoutTasks, d \in Delays : Restart(t, d)
    \/ \E t \in ScoutTasks, a \in {"auth", "unauth", "fail"}, d \in Delays :
            SessionArrived(t, a, d)
    \/ \E t \in ScoutTasks, a \in {"429", "error", "slots", "empty"}, d \in Delays :
            FetchAnswered(t, a, d)
    \/ \E t \in ScoutTasks, r \in BOOLEAN, d \in Delays : RotationAnswered(t, r, d)
    \/ \E t \in ScoutTasks, d \in Delays : JitterElapsed(t, d)
    \/ \E t \in ScoutTasks, d \in Delays : CooldownElapsed(t, d)
    \/ ClientTick(MaxScoutTicks)

\* startScout and its poll loop followed for longer, through the backoff, and
\* neither stopped nor paused
LoopNext ==
    \/ \E t \in ScoutTasks, d \in Delays : Restart(t, d)
    \/ \E t \in ScoutTasks, a \in {"auth", "unauth", "fail"}, d \in Delays :
            SessionArrivedWithin(MaxRateChecks, t, a, d)
    \/ \E t \in ScoutTasks, a \in {"429", "error", "slots", "empty"}, d \in Delays :
            FetchAnswered(t, a, d)
    \/ \E t \in ScoutTasks, r \in BOOLEAN, d \in Delays : RotationAnswered(t, r, d)
    \/ \E t \in ScoutTasks, d \in Delays : JitterElapsed(t, d)
    \/ \E t \in ScoutTasks, d \in Delays : CooldownElapsed(t, d)
    \/ ClientTick(MaxLoopTicks)

\* The probes next to the connector: what the scout finds reaches the
\* connector's listener while the socket opens and closes
ForwardNext ==
    \/ \E t \in ScoutTasks, d \in Delays : StartScout(t, d)
    \/ \E t \in ScoutTasks, d \in Delays : CheckOnce(t, d)
    \/ \E t \in ScoutTasks, a \in {"auth", "unauth", "fail"}, d \in Delays :
            SessionArrived(t, a, d)
    \/ \E t \in ScoutTasks, a \in {"429", "error", "slots", "empty"}, d \in Delays :
            FetchAnswered(t, a, d)
    \/ \E t \in ScoutTasks, r \in BOOLEAN, d \in Delays : RotationAnswered(t, r, d)
    \/ \E t \in ScoutTasks, d \in Delays : JitterElapsed(t, d)
    \/ \E t \in ScoutTasks, d \in Delays : CooldownElapsed(t, d)
    \/ ClientTick(MaxScoutTicks)
    \/ AutoConnect
    \/ \E s \in Sockets : SocketOpen(s)
    \/ \E s \in Sockets : SocketClose(s)
    \/ SocketOnMessage

SocketNext ==
    \/ AutoConnect
    \/ ConnectMessage
    \/ DisconnectFromServer
    \/ ReconnectTimerFires
    \/ \E s \in Sockets : SocketOpen(s)
    \/ \E s \in Sockets : SocketClose(s)

\* Message dispatch and fan-out for the whole fleet; the clock stands still, so
\* the heartbeat monitor finds nobody stale.
HiveNext ==
    \/ \E c \in ClientIds : Connection(c)
    \/ \E c \in ClientIds, n \in RegisterNames : Register(c, n)
    \/ \E c \in ClientIds, d \in DataValues : SlotFound(c, d)
    \/ \E c \in ClientIds, d \in DataValues : BookingSuccess(c, d)
    \/ \E i \in 1..MaxTasks : NotifyDone(i)
    \/ \E c \in ClientIds : PeerClose(c)
    \/ \E c \in ClientIds : CloseEvent(c)
    \/ \E c \in ClientIds : ErrorEvent(c)

\* Liveness tracking for a smaller fleet, with the clock advancing.
MonitorIds == 1..MaxMonitorClients

MonitorNext ==
    \/ \E c \in MonitorIds : Connection(c)
    \/ \E c \in MonitorIds, st \in HeartbeatStatuses, s \in HeartbeatStats : Heartbeat(c, st, s)
    \/ \E c \in MonitorIds, st \in StatusUpdates : StatusUpdate(c, st)
    \/ \E c \in MonitorIds, ty \in LoggedTypes : LoggedOnly(c, ty)
    \/ \E c \in MonitorIds : PeerClose(c)
    \/ \E c \in MonitorIds : CloseEvent(c)
    \/ HeartbeatSweep
    \/ HiveTick

\* Heartbeats with every kind of stats payload
HeartbeatNext ==
    \/ \E c \in MonitorIds : Connection(c)
    \/ \E c \in MonitorIds, st \in HeartbeatStatuses, s \in PartialStats : Heartbeat(c, st, s)
    \/ \E c \in MonitorIds : PeerClose(c)
    \/ \E c \in MonitorIds : CloseEvent(c)
    \/ HiveTick

\* Counted reports and heartbeats of the same clients
CountersNext ==
    \/ \E c \in MonitorIds : Connection(c)
    \/ \E c \in MonitorIds, d \in DataValues : SlotFound(c, d)
    \/ \E c \in MonitorIds, d \in DataValues : BookingSuccess(c, d)
    \/ \E i \in 1..MaxTasks : NotifyDone(i)
    \/ \E c \in MonitorIds, st \in HeartbeatStatuses, s \in HeartbeatStats : Heartbeat(c, st, s)
    \/ \E c \in MonitorIds : PeerClose(c)
    \/ \E c \in MonitorIds : CloseEvent(c)

Init == HiveInit /\ SniperInit /\ ScoutInit /\ SocketInit /\ AutoInit

SpecHive == Init /\ [][HiveNext]_vars

SpecMonitor == Init /\ [][MonitorNext]_vars

SpecCounters == Init /\ [][CountersNext]_vars

SpecHeartbeat == Init /\ [][HeartbeatNext]_vars

\* manual checks against an endpoint that fails, over the span of the backoffs
SpecBackoff == Init /\ [][BackoffNext]_vars

SpecPage == Init /\ [][PageNext]_vars

SpecPause == Init /\ [][PauseNext]_vars

SpecReport == Init /\ [][ReportNext]_vars

SpecDetect == Init /\ [][DetectNext]_vars

SpecAuto == Init /\ [][AutoNext]_vars

SpecAnalyze == Init /\ [][AnalyzeNext]_vars
SpecSniper == Init /\ [][SniperNext]_vars

SpecScout == Init /\ [][ScoutNext]_vars

SpecProbes == Init /\ [][ProbesNext]_vars

SpecRestart == Init /\ [][RestartNext]_vars

SpecLoop == Init /\ [][LoopNext]_vars

\* timers fire once they are due and the clock keeps advancing
SpecLoopFair ==
    /\ SpecLoop
    /\ WF_vars(ClientTick(MaxLoopTicks))
    /\ \A t \in ScoutTasks :
          /\ WF_vars(\E d \in Delays : JitterElapsed(t, d))
          /\ WF_vars(\E d \in Delays : CooldownElapsed(t, d))

SpecForward == Init /\ [][ForwardNext]_vars

SpecRateLimit == Init /\ [][RateLimitNext]_vars

SpecSocket == Init /\ [][SocketNext]_vars

\* a timer that is set fires
SpecSocketFair == SpecSocket /\ WF_vars(ReconnectTimerFires) /\ WF_vars(AutoConnect)

\* Timers fire and awaited promises (token lookup, configuration, fetch) settle
SpecSniperFair ==
    /\ SpecSniper
    /\ \A p \in Invocations :
          /\ WF_vars(RetryDelayElapsed(p))
          /\ WF_vars(SniperTriggerSession(p))
          /\ WF_vars(\E src \in TokenSources : TokenResolved(p, src))
          /\ WF_vars(BookingRequestIssued(p))
          /\ WF_vars(\E r \in BookingResponses : BookingResponse(p, r))

\* ws emits 'close' for every socket that left OPEN, terminated ones included
SpecMonitorFair ==
    SpecMonitor /\ \A c \in MonitorIds : WF_vars(CloseEvent(c))

\* ========================================================================
\* PROPERTIES OF THE ORCHESTRATOR
\* ========================================================================
Recipients(frames) == {frames[k].to : k \in 1..Len(frames)}

OpenRegistered == {c \in Registry : conn[c] = "open"}

\* The step in which the suspended handler tasks[i] resumes and finishes
Resumes(i, kind) ==
    /\ i \in 1..Len(tasks)
    /\ tasks[i].kind = kind
    /\ tasks' = RemoveAt(tasks, i)

\* C1: when the server finishes handling SLOT_FOUND from client A, one
\* SNIPER_TRIGGER carrying A's slots goes to every registry client other than A
\* whose socket is open, and no frame goes to A or to anyone else.
C1_SniperTriggerToOthers ==
    [][\A i \in 1..MaxTasks :
          Resumes(i, "SLOT_FOUND") =>
              /\ Recipients(sent') = OpenRegistered \ {tasks[i].from}
              /\ Len(sent') = Cardinality(OpenRegistered \ {tasks[i].from})
              /\ \A k \in 1..Len(sent') :
                    /\ sent'[k].type = "SNIPER_TRIGGER"
                    /\ sent'[k].data = tasks[i].data
                    /\ sent'[k].to # tasks[i].from]_vars

\* Three clients are registered and a SNIPER_TRIGGER has just gone to two of them
C1_Witness ==
    /\ Cardinality(Registry) = 3
    /\ Len(sent) = 2
    /\ \A k \in 1..Len(sent) : sent[k].type = "SNIPER_TRIGGER" /\ sent[k].data = 1

\* C2: when the server finishes handling BOOKING_SUCCESS from client B, one
\* BOOKING_COMPLETE whose bookedBy is the name B had when the message was
\* dispatched goes to every registry client whose socket is open, B included.
C2_BookingCompleteToAll ==
    [][/\ \A c \in ClientIds :
             (Len(tasks') = Len(tasks) + 1 /\ tasks'[Len(tasks')].from = c)
                 => tasks'[Len(tasks')].clientName = clients[c].name
       /\ \A i \in 1..MaxTasks :
             Resumes(i, "BOOKING_SUCCESS") =>
                 /\ Recipients(sent') = OpenRegistered
                 /\ Len(sent') = Cardinality(OpenRegistered)
                 /\ tasks[i].from \in OpenRegistered
                        => tasks[i].from \in Recipients(sent')
                 /\ \A k \in 1..Len(sent') :
                       /\ sent'[k].type = "BOOKING_COMPLETE"
                       /\ sent'[k].source = tasks[i].clientName
                       /\ sent'[k].data = tasks[i].data]_vars

\* Three clients are registered and a BOOKING_COMPLETE naming the second one, under
\* its registered name, has just gone to all three
C2_Witness ==
    /\ Cardinality(Registry) = 3
    /\ Recipients(sent) = {1, 2, 3}
    /\ clients[2].stats.bookings = 1
    /\ \A k \in 1..Len(sent) :
          sent[k].type = "BOOKING_COMPLETE" /\ sent[k].source = ExtensionName

\* C6: a sweep of the heartbeat monitor removes from the registry, and terminates
\* the socket of, exactly the clients whose now - lastHeartbeat exceeds the
\* timeout; the close event of each socket that left OPEN then follows, and its
\* handler sends CLIENT_COUNT, carrying the size of the registry without that
\* client, to every remaining client whose socket is open.
C6_HeartbeatEviction ==
    /\ [][HeartbeatSweep =>
            \A c \in Registry :
                IF hnow - clients[c].lastHeartbeat > HeartbeatTimeout
                THEN c \notin DOMAIN clients' /\ conn'[c] \notin {"open", "fresh"}
                ELSE c \in DOMAIN clients' /\ clients'[c] = clients[c]
                     /\ conn'[c] = conn[c]]_vars
    /\ \A c \in MonitorIds :
          (conn[c] \in {"closing", "terminated"})
              ~> (/\ conn[c] = "closed"
                  /\ c \notin Registry
                  /\ Recipients(sent) = OpenRegistered
                  /\ Len(sent) = Cardinality(OpenRegistered)
                  /\ \A k \in 1..Len(sent) :
                        /\ sent[k].type = "CLIENT_COUNT"
                        /\ sent[k].count = Cardinality(Registry))

\* The first client went stale and was evicted by a sweep while the second, which
\* kept sending heartbeats, stays registered
C6_Witness ==
    /\ conn[1] = "terminated"
    /\ 1 \notin Registry
    /\ 2 \in OpenRegistered
    /\ hnow - clients[2].lastHeartbeat <= HeartbeatTimeout

\* ========================================================================
\* PROPERTIES OF THE SNIPER
\* ========================================================================
\* invocation p calls executeSniper in this step
CallsExecuteSniper(p) == inv'[p].calls = inv[p].calls + 1

\* invocation p is between the guard of executeSniper and its `finally`
InsideExecuteSniper(p) == inv[p].pc \in {"token", "config", "fetch"}

\* C3: a call of executeSniper made while another call has not completed issues
\* no booking request, returns PENDING 'Already executing' and leaves sniperState
\* as it was; at most one call is past the guard, so at most one booking request
\* is in flight.
C3_SingleFlight ==
    /\ [][\A p \in Invocations :
            (CallsExecuteSniper(p) /\ \E q \in Invocations : InsideExecuteSniper(q))
                => /\ sniperState' = sniperState
                   /\ inv'[p].result = SniperRejected
                   /\ inv'[p].pc = "returned"]_vars
    /\ [](Cardinality({p \in Invocations : InsideExecuteSniper(p)}) <= 1)
    /\ [](Cardinality({p \in Invocations : inv[p].pc = "fetch"}) <= 1)

\* One call has its booking request in flight and another call, made meanwhile,
\* has returned PENDING 'Already executing'
C3_Witness ==
    \E p, q \in Invocations :
        /\ inv[p].pc = "fetch"
        /\ inv[q].pc = "returned" /\ inv[q].calls = 1
        /\ inv[q].result = SniperRejected
        /\ sniperState.totalShots = 1

\* C8: executeSniperWithRetry calls executeSniper again only after a FAILED
\* result with retries remaining, and with the slot it was given; it makes at
\* most retries + 1 calls, returns at once on BOOKED, PENDING and TOKEN_ERROR,
\* and every invocation returns.
C8_RetryBounded ==
    /\ [][\A p \in Invocations :
            /\ (inv[p].kind = "retry" /\ CallsExecuteSniper(p))
                  => /\ inv[p].result.status = Failed
                     /\ inv[p].retries > 0
                     /\ inv'[p].arg = inv[p].slots[1]
                     /\ inv'[p].slots = inv[p].slots
            /\ (/\ inv'[p].kind = "retry"
                /\ inv'[p].result # inv[p].result
                /\ inv'[p].result.status \in {Booked, Pending, TokenError})
                  => inv'[p].pc = "returned"]_vars
    /\ [](\A p \in Invocations :
            inv[p].kind = "retry" => inv[p].calls <= inv[p].given + 1)
    /\ \A p \in Invocations :
          (inv[p].kind = "retry") ~> (inv[p].pc = "returned")

\* An invocation given two retries has returned FAILED after three calls
C8_Witness ==
    \E p \in Invocations :
        /\ inv[p].kind = "retry" /\ inv[p].pc = "returned"
        /\ inv[p].given = 2 /\ inv[p].calls = 3
        /\ inv[p].result.status = Failed

\* C9: an invocation of executeSniperWithRetry whose latest booking response was
\* HTTP 401 or 403 has no further booking request in flight.
C9_AuthFailureNotRetried ==
    \A p \in Invocations :
        (inv[p].kind = "retry" /\ inv[p].result.reason = "Authentication failed")
            => inv[p].pc # "fetch"

\* C5: no booking request is in flight for a call of executeSniper that was made
\* after BOOKING_COMPLETE had been handled, be it the call of handleSniperTrigger
\* or a retry of executeSniperWithRetry.
C5_NoAttemptAfterComplete ==
    \A p \in Invocations :
        (inv[p].pc = "fetch" /\ inv[p].afterComplete)
            => ~(inv[p].kind = "trigger" \/ (inv[p].kind = "retry" /\ inv[p].calls > 1))

\* ========================================================================
\* PROPERTIES OF THE SCOUT
\* ========================================================================
\* the poll loop run by activation t wakes from its delay and starts a probe
LoopStartsProbe(t) == scoutTasks[t].pc = "jitter" /\ scoutTasks'[t].pc = "session"

\* activation t issues its slots request in this step
IssuesProbeRequest(t) == scoutTasks[t].pc # "fetch" /\ scoutTasks'[t].pc = "fetch"

StartScoutStep == \E t \in ScoutTasks, d \in Delays : StartScout(t, d)

\* C4: handling BOOKING_COMPLETE leaves isPolling false; while isPolling is
\* false and startScout is not called, it stays false and no poll loop starts a
\* probe.
C4_StopsOnBookingComplete ==
    /\ [][HandleBookingComplete => ~scoutState'.isPolling]_vars
    /\ [][(~scoutState.isPolling /\ ~StartScoutStep)
            => /\ ~scoutState'.isPolling
               /\ \A t \in ScoutTasks : ~LoopStartsProbe(t)]_vars

\* BOOKING_COMPLETE was handled, polling is off, and a poll loop that was asleep
\* has reached the end of its delay
C4_Witness ==
    /\ completeSeen
    /\ ~scoutState.isPolling
    /\ scoutState.totalChecks > 0
    /\ \E t \in ScoutTasks :
          /\ scoutTasks[t].kind = "loop" /\ scoutTasks[t].pc = "jitter"
          /\ now >= scoutTasks[t].wake

\* C10: no activation issues its slots request while now < cooldownUntil, and
\* a CHECK_SLOTS_ONCE probe called during the cooldown returns COOLDOWN without
\* counting a check.
C10_NoProbeInCooldown ==
    [][\A t \in ScoutTasks :
          /\ IssuesProbeRequest(t)
                => ~(scoutState.cooldownUntil # NoCooldown
                        /\ now < scoutState.cooldownUntil)
          /\ ((\E d \in Delays : CheckOnce(t, d))
                 /\ scoutState.cooldownUntil # NoCooldown
                 /\ now < scoutState.cooldownUntil)
                => /\ scoutTasks'[t].pc = "done"
                   /\ scoutTasks'[t].result = Cooldown
                   /\ scoutState'.totalChecks = scoutState.totalChecks]_vars

\* ========================================================================
\* PROPERTIES OF THE COORDINATION CLIENT
\* ========================================================================
\* C7: the close handler creates no WebSocket itself; when the reconnect timer
\* fires on a client that is not connected, a new WebSocket is created; and so
\* every socket that closed is eventually followed by a newer one.
C7_ReconnectsAfterClose ==
    /\ [][\A s \in Sockets : SocketClose(s) => Created' = Created]_vars
    /\ [][(ReconnectTimerFires /\ ~socketState.connected) => Created' # Created]_vars
    /\ \A s \in Sockets :
          s < MaxSockets => ((ws[s] = "closed") ~> (\E r \in Created : r > s))

\* C11: while every answer is a 429, a cooldown deadline assigned once
\* consecutiveErrors has reached maxRetries is never earlier than the deadline
\* assigned before it.
AssignsCooldown ==
    \/ \E t \in ScoutTasks, d \in Delays : RotationAnswered(t, FALSE, d)
    \/ CheckDatesRateLimited

C11_CooldownMonotone ==
    [][(AssignsCooldown /\ scoutState'.consecutiveErrors >= ScoutMaxRetries)
            => scoutState'.cooldownUntil >= lastCooldown]_vars

\* a second deadline has been assigned with maxRetries consecutive errors
C11_Witness ==
    /\ scoutState.consecutiveErrors >= ScoutMaxRetries
    /\ scoutState.cooldownUntil > StandardCooldown(0)
    /\ lastCooldown = scoutState.cooldownUntil

\* the poll loops that are running
ActiveLoops == {t \in ScoutTasks : Running(t) /\ scoutTasks[t].kind = "loop"}

\* C12: a startScout called while a loop runs stops that loop: at most one poll
\* loop is running at any time, and a loop starts a probe only when no other
\* loop and no later startScout is running.
C12_RestartStopsPriorLoop ==
    /\ [](Cardinality(ActiveLoops) <= 1)
    /\ [][\A t \in ScoutTasks :
            LoopStartsProbe(t)
                => \A u \in ScoutTasks \ {t} :
                      ~(Running(u) /\ scoutTasks[u].kind \in {"start", "loop"})]_vars

\* C13: stopScout leaves isPolling false; from then on, unless startScout is
\* called, whenever startScout's activation or its poll loop moves it starts
\* no probe: out of either sleep it exits, and a probe in flight only runs on
\* to its own end, after which the loop exits.
C13_StopEndsLoop ==
    /\ [][StopScout => ~scoutState'.isPolling]_vars
    /\ [][\A t \in ScoutTasks :
            ( /\ Running(t) /\ scoutTasks[t].kind \in {"start", "loop"}
              /\ ~scoutState.isPolling /\ ~StartScoutStep
              /\ scoutTasks'[t] # scoutTasks[t] )
            => /\ ~LoopStartsProbe(t)
               /\ scoutTasks[t].pc \in {"jitter", "cooldownSleep", "rotate"}
                     => scoutTasks'[t].pc = "done"
               /\ scoutTasks[t].pc = "session" => scoutTasks'[t].pc \in {"fetch", "done"}
               /\ scoutTasks[t].pc = "fetch" => scoutTasks'[t].pc \in {"rotate", "done"}]_vars

\* polling is off with nothing found, and a poll loop has exited
C13_Witness ==
    /\ ~scoutState.isPolling
    /\ scoutState.slotsFound = 0
    /\ scoutState.totalChecks > 0
    /\ \E t \in ScoutTasks : scoutTasks[t].kind = "loop" /\ scoutTasks[t].pc = "done"

\* C14: when the slots request of a probe made by the poll loop is answered
\* while isPolling is false, no runtime message is sent: no SLOTS_FOUND and no
\* SCOUT_RESULT.
C14_StoppedProbeDiscarded ==
    [][\A t \in ScoutTasks :
          ( /\ scoutTasks[t].kind = "loop"
            /\ scoutTasks[t].pc = "fetch"
            /\ ~scoutState.isPolling
            /\ scoutTasks'[t] # scoutTasks[t] )
          => scoutOut' = <<>>]_vars

\* C15: in every state of the scout, stopScout returns {status: STOPPED,
\* totalChecks, slotsFound} with the counters as they were, leaves isPolling and
\* isPaused false and every other field as it was, and a second stopScout
\* returns the same object and leaves the same state.
C15_StopIdempotent ==
    /\ [](LET once == StopScoutState(scoutState)
              twice == StopScoutState(once)
          IN  /\ ~once.isPolling /\ ~once.isPaused
              /\ once = [scoutState EXCEPT !.isPolling = FALSE, !.isPaused = FALSE]
              /\ twice = once
              /\ StopScoutResult(scoutState)
                    = [status |-> "STOPPED", totalChecks |-> scoutState.totalChecks,
                       slotsFound |-> scoutState.slotsFound]
              /\ StopScoutResult(once) = StopScoutResult(scoutState))
    /\ [][StopScout => /\ scoutState' = StopScoutState(scoutState)
                       /\ StopScoutState(scoutState') = scoutState']_vars

\* stopScout has acted on a scout that had counted checks and slots and still
\* has a poll loop asleep
C15_Witness ==
    /\ ~scoutState.isPolling /\ ~scoutState.isPaused
    /\ scoutState.totalChecks > 0 /\ scoutState.slotsFound > 0
    /\ \E t \in ScoutTasks : scoutTasks[t].kind = "loop" /\ scoutTasks[t].pc = "jitter"

\* the probe made by the poll loop in activation t returns FOUND in this step
LoopProbeFound(t) ==
    /\ scoutTasks[t].kind = "loop"
    /\ \E d \in Delays : FetchAnswered(t, "slots", d)

\* C16: when a probe made by the poll loop returns FOUND, the loop leaves
\* isPolling false, broadcasts the result and exits; while isPolling is false
\* and startScout is not called, it stays false and neither startScout's
\* activation nor a poll loop begins a probe or another sleep.
C16_FoundEndsPolling ==
    /\ [][\A t \in ScoutTasks :
            LoopProbeFound(t)
                => /\ ~scoutState'.isPolling
                   /\ scoutTasks'[t].pc = "done"
                   /\ scoutOut' = <<"SLOTS_FOUND", "SCOUT_RESULT">>]_vars
    /\ [][(~scoutState.isPolling /\ ~StartScoutStep)
            => /\ ~scoutState'.isPolling
               /\ \A u \in ScoutTasks :
                     ( /\ scoutTasks'[u].kind \in {"start", "loop"}
                       /\ scoutTasks'[u].pc \in {"session", "jitter", "cooldownSleep"} )
                     => scoutTasks'[u] = scoutTasks[u]]_vars

\* a poll loop has ended with FOUND on its second counted check
C16_Witness ==
    /\ ~scoutState.isPolling
    /\ scoutState.totalChecks = MaxChecks
    /\ \E t \in ScoutTasks :
          /\ scoutTasks[t].kind = "loop" /\ scoutTasks[t].pc = "done"
          /\ scoutTasks[t].result = Found

\* the poll loop in activation t is in one of its sleeps
Asleep(t) ==
    /\ scoutTasks[t].kind = "loop"
    /\ scoutTasks[t].pc \in {"jitter", "cooldownSleep"}

\* the clock of the model ends before the sleep of activation t does
ClockOut(t) == Asleep(t) /\ now = MaxLoopTicks * TickMs /\ now < scoutTasks[t].wake

\* C17: startScout's activation and its poll loop end only when a probe returns
\* FOUND or when isPolling is false or isPaused is true; and a poll loop asleep
\* after any other result, with isPolling true and isPaused false, goes on to
\* start another probe unless the flags change first.
C17_LoopKeepsProbing ==
    /\ [][\A t \in ScoutTasks :
            ( /\ Running(t) /\ scoutTasks[t].kind \in {"start", "loop"}
              /\ scoutTasks'[t].pc = "done" )
            => \/ \E d \in Delays : FetchAnswered(t, "slots", d)
               \/ ~scoutState'.isPolling
               \/ scoutState'.isPaused]_vars
    /\ \A t \in ScoutTasks :
          (Asleep(t) /\ scoutState.isPolling /\ ~scoutState.isPaused)
              ~> \/ scoutTasks[t].pc = "session"
                 \/ ~scoutState.isPolling
                 \/ scoutState.isPaused
                 \/ ClockOut(t)

\* a poll loop starts a probe after maxRetries consecutive errors and the
\* backoff they caused
C17_Witness ==
    /\ scoutState.isPolling /\ ~scoutState.isPaused
    /\ scoutState.consecutiveErrors >= ScoutMaxRetries
    /\ \E t \in ScoutTasks : scoutTasks[t].kind = "loop" /\ scoutTasks[t].pc = "session"

\* C18: no poll loop starts a probe while isPaused is true.
C18_NoProbeWhilePaused ==
    [][\A t \in ScoutTasks : LoopStartsProbe(t) => ~scoutState.isPaused]_vars

\* C19: every slots request is built from the session that the GET_SESSION of
\* the same probe returned; when that refresh fails, no request is issued.
C19_RequestUsesFreshSession ==
    [][\A t \in ScoutTasks :
          IssuesProbeRequest(t) => scoutTasks'[t].session = "fetched"]_vars

\* C20: the server has at most one message handler in progress, and the
\* BOOKING_COMPLETE broadcast of a BOOKING_SUCCESS is not sent while the handler
\* of a SLOT_FOUND that arrived before it has yet to send its SNIPER_TRIGGER.
C20_MessageHandlingAtomic ==
    /\ [](Len(tasks) <= 1)
    /\ [][\A i \in 1..MaxTasks :
            Resumes(i, "BOOKING_SUCCESS")
                => \A j \in 1..(i - 1) : tasks[j].kind # "SLOT_FOUND"]_vars

\* C21: when the runtime messages of a probe that returned FOUND reach the
\* connector's listener while the connector is connected and its socket is
\* open, the listener writes a SLOT_FOUND frame to the socket.
C21_FoundIsForwarded ==
    [][(SocketOnMessage /\ socketState.connected
            /\ ws[socketState.socket] = "open")
          => \E k \in 1..Len(uplink') : uplink'[k] = "SLOT_FOUND"]_vars

\* C22: a 301 or 302 response is classified Booked with the redirect URL when
\* its Location contains "Payment", "Confirm" or "Success", and Pending in every
\* other case, a missing Location included.
C22_RedirectClassification ==
    [][\A p \in Invocations, r \in ClassifiedResponses :
          (BookingResponse(p, r) /\ r.status \in {301, 302})
              => IF r.location \in {"Payment", "Confirm", "Success"}
                 THEN inv'[p].result = Result(Booked, r.location)
                 ELSE inv'[p].result.status = Pending]_vars

\* C23: a 200 response is classified Booked exactly when its body contains
\* "successfully", "booked" or "appointment has been"; a readable body with none
\* of these and no failure phrase is classified Pending.
ListedSuccessPhrases == {"successfully", "booked", "appointment has been"}

C23_OkClassification ==
    [][\A p \in Invocations, r \in ClassifiedResponses :
          (BookingResponse(p, r) /\ r.status = 200 /\ r.body # Unreadable)
              => /\ inv'[p].result.status = Booked
                        <=> \E ph \in ListedSuccessPhrases : Includes(r.body, ph)
                 /\ (\A ph \in ListedSuccessPhrases \cup FailurePhrases :
                            ~Includes(r.body, ph))
                        => inv'[p].result.status = Pending]_vars

\* C24: a 200 response whose body contains one of the failure phrases is
\* classified Failed with the reason "Slot no longer available".
C24_FailurePhraseFails ==
    [][\A p \in Invocations, r \in ClassifiedResponses :
          (BookingResponse(p, r) /\ r.status = 200 /\ r.body # Unreadable
                /\ r.body \cap FailurePhrases # {})
              => inv'[p].result = Result(Failed, "Slot no longer available")]_vars

C26_HeartbeatFrame ==
    [][\A c \in ClientIds, st \in HeartbeatStatuses, s \in PartialStats :
          (Heartbeat(c, st, s) /\ c \in Registry)
              => /\ DOMAIN clients' = DOMAIN clients
                 /\ clients'[c].lastHeartbeat = hnow
                 /\ DOMAIN clients'[c].stats = DOMAIN clients[c].stats
                 /\ \A f \in DOMAIN clients[c].stats :
                        clients'[c].stats[f] =
                            IF s # NoStats /\ f \in DOMAIN s THEN s[f]
                            ELSE clients[c].stats[f]
                 /\ Len(sent') = 1
                 /\ sent'[1].to = c
                 /\ sent'[1].type = "HEARTBEAT_ACK"
                 /\ \A d \in Registry \ {c} : clients'[d] = clients[d]]_vars

C26_Witness ==
    \E c, d \in Registry :
        /\ c # d
        /\ clients[c].lastHeartbeat = hnow
        /\ clients[d].lastHeartbeat < hnow
        /\ clients[c].stats.checks = 1
        /\ clients[c].stats.slotsFound = 1
        /\ Len(sent) = 1
        /\ sent[1].type = "HEARTBEAT_ACK"
        /\ sent[1].to = c

\* C27: every client record in the registry has status idle, hunting or active.
C27_StatusInEnum ==
    \A c \in Registry : clients[c].status \in {"idle", "hunting", "active"}

\* C28: a probe that fails with a thrown error increments consecutiveErrors to n;
\* for n >= 3 it sets cooldownUntil to now + 60 s, 120 s, 240 s for n = 3, 4, 5
\* and now + 300 s for every n >= 6, and for n < 3 it leaves cooldownUntil
\* unchanged; a response that parses resets consecutiveErrors to 0.
BackoffTable(n) ==
    CASE n = 3 -> 60000
      [] n = 4 -> 120000
      [] n = 5 -> 240000
      [] OTHER -> 300000

C28_ErrorBackoff ==
    [][\A t \in ScoutTasks, d \in Delays :
          /\ FetchAnswered(t, "error", d)
                => LET n == scoutState.consecutiveErrors + 1
                   IN  /\ scoutState'.consecutiveErrors = n
                       /\ scoutState'.cooldownUntil =
                              IF n >= ScoutMaxRetries THEN now + BackoffTable(n)
                              ELSE scoutState.cooldownUntil
          /\ (FetchAnswered(t, "slots", d) \/ FetchAnswered(t, "empty", d))
                => scoutState'.consecutiveErrors = 0]_vars

C28_Witness ==
    /\ scoutState.consecutiveErrors = 7
    /\ scoutState.cooldownUntil = now + 300000

\* C29: when a probe made by the poll loop returns COOLDOWN with a cooldown in
\* force and polling still on, the loop's next wait is the remaining cooldown:
\* it sleeps until cooldownUntil, with no standard interval slept before it.
LoopProbeCooldown(t) ==
    /\ scoutTasks[t].kind = "loop"
    /\ \E d \in Delays : RotationAnswered(t, FALSE, d)
    /\ scoutState'.isPolling /\ ~scoutState'.isPaused

C29_CooldownSleptDirectly ==
    [][\A t \in ScoutTasks :
          LoopProbeCooldown(t)
              => /\ scoutTasks'[t].pc = "cooldownSleep"
                 /\ scoutTasks'[t].wake = scoutState'.cooldownUntil]_vars

\* C30: one handleSlotsFound invocation calls executeSniperWithRetry at most
\* maxAutoAttempts times, and after a FAILED result its next call is for a slot
\* other than the one that failed.
C30_AutoSniperBound ==
    /\ [](\A h \in Finds : finds[h].calls <= MaxAutoAttempts)
    /\ [][\A h \in Finds :
             (AutoSniperResult(h, Failed) /\ finds'[h].pc = "shot")
                 => finds'[h].selected # finds[h].selected]_vars

\* C31: once every PAGE_STATE message received so far has been handled, the
\* session GET_SESSION returns is the one built from the message received last.
C31_LatestSessionWins ==
    LET handled == {m \in PageStates : pageStates[m] = "done"}
    IN  (handled # {} /\ \A m \in PageStates : pageStates[m] \in {"new", "done"})
            => \A m \in handled : bgActiveSession >= m

\* C32: while a cooldown deadline lies in the future, no step of the scout
\* other than a successful identity rotation clears it or moves it earlier.
RotationResumes == \E t \in ScoutTasks, d \in Delays : RotationAnswered(t, TRUE, d)

C32_CooldownKept ==
    [][(InCooldown(scoutState, now) /\ ~RotationResumes)
          => scoutState'.cooldownUntil >= scoutState.cooldownUntil]_vars

\* C33: however pauseScout and resumeScout interleave with the running loop, at
\* most one poll loop instance is active.
C33_OneLoopAfterResume ==
    Cardinality({t \in ScoutTasks : scoutTasks[t].kind = "loop" /\ Running(t)}) <= 1

\* C34: isExecuting is true exactly while some call of executeSniper is between
\* the guard and its `finally`; when such a call completes, whatever its
\* result, isExecuting is false again, and a call made while no attempt is in
\* flight is accepted.
C34_GuardReleased ==
    /\ [](sniperState.isExecuting <=> \E p \in Invocations : InsideExecuteSniper(p))
    /\ [][\A p \in Invocations :
            /\ (InsideExecuteSniper(p) /\ inv'[p].pc \notin {"token", "config", "fetch"})
                  => ~sniperState'.isExecuting
            /\ (CallsExecuteSniper(p) /\ \A q \in Invocations : ~InsideExecuteSniper(q))
                  => inv'[p].pc = "token"]_vars

\* one call acquired the guard and returned FAILED; a later call was accepted
C34_Witness ==
    \E p, q \in Invocations :
        /\ inv[p].pc = "returned" /\ inv[p].result.status = Failed
        /\ inv[q].pc = "token"
        /\ sniperState.totalShots >= 2
        /\ sniperState.failedShots >= 1

\* C35: a BOOKED result obtained while connected, by the auto-sniper or by a
\* SNIPER_TRIGGER, has caused exactly one BOOKING_SUCCESS frame to the server
\* once the runtime messages it caused have been delivered.
C35_OneBookingSuccess ==
    \A b \in Bookings :
        (bookings[b].origin \in {"auto", "trigger"}
            /\ bookings[b].results = 0 /\ bookings[b].successes = 0)
                => bookings[b].frames = 1

\* C36: every detection starts the auto-sniper sequence at most once: the
\* invocations of handleSlotsFound that the listener has made never outnumber
\* the detections counted in slotsFound.
C36_OneSequencePerDetection ==
    Cardinality({h \in Finds : finds[h].pc # "idle"}) <= scoutState.slotsFound

\* C37: with auto-sniper enabled, a find with a non-empty slot list that
\* reaches handleSlotsFound makes at least one executeSniperWithRetry call,
\* whatever counter value the earlier finds left behind.
C37_FindIsAttempted ==
    [][\A h \in Finds, slots \in SlotLists \ {<<>>} :
            (AutoSniperEnabled /\ HandleSlotsFound(h, slots)) => finds'[h].calls >= 1]_vars

\* C38: at most one of the client's WebSockets is connecting or open at any
\* time.
C38_OneLiveSocket ==
    Cardinality({s \in Sockets : ws[s] \in {"connecting", "open"}}) <= 1

\* C39: when the close event of a socket closed by disconnectFromServer is
\* processed in the state that call left (no reconnect timer, reconnecting
\* false), no reconnect timer is started and reconnecting stays false, so that
\* connectToServer is not refused afterwards.
C39_DisconnectStaysDown ==
    [][\A s \in Sockets :
          (ws[s] = "closing" /\ ~socketState.reconnecting /\ ~socketState.reconnectTimer
              /\ SocketClose(s))
            => (~socketState'.reconnecting /\ ~socketState'.reconnectTimer
                    /\ ~ConnectBlocked(socketState'))]_vars

\* C40: while a client stays in the registry, no step lowers its slotsFound
\* or its bookings counter.
C40_CountersNeverDecrease ==
    [][\A c \in Registry :
          c \in DOMAIN clients'
            => /\ clients'[c].stats.slotsFound >= clients[c].stats.slotsFound
               /\ clients'[c].stats.bookings >= clients[c].stats.bookings]_vars

====
